---- MODULE Spec2Model ----
(***************************************************************************)
(* The submission-processing orchestrator of carywoods/h2                  *)
(* (src/orchestrator/app): intake, the background pipeline                 *)
(* process_submission, the five data providers as seen by the fan-out, the *)
(* sufficiency scorer check_data_sufficiency and the retrying synthesizer  *)
(* generate_profile.                                                       *)
(*                                                                         *)
(* Python values are modelled as follows.  A dict is a TLA+ function whose *)
(* DOMAIN is the dict's key set ({} is the empty function <<>>); a list is *)
(* a sequence; None is the string "None" where the other values of the     *)
(* field are strings, and an optional number is a sequence of length 0 or  *)
(* 1.  An awaited call either returns a value or raises:                   *)
(* [raised |-> FALSE, value |-> v] or [raised |-> TRUE, message |-> m].    *)
(***************************************************************************)
EXTENDS Integers, Sequences, FiniteSets, TLC

\* ------------------------------------------------------------------ bounds

\* Number of submissions intake may create (job ids are 1..NumJobs).
NumJobs == 2

\* Number of requests counted against one IP before intake stops being tried.
MaxRequests == 2

\* The clock counts whole 24-hour periods and stops at MaxTime.
MaxTime == 1

\* ------------------------------------------------------------ Python values

None == "None"

EmptyDict == <<>>

Return(v) == [raised |-> FALSE, value |-> v]

Raise(m) == [raised |-> TRUE, message |-> m]

\* d.get(k) is truthy, for a field holding a list
TruthyList(d, k) == k \in DOMAIN d /\ d[k] # <<>>

\* d.get(k) is truthy, for a field holding a string or None
TruthyStr(d, k) == k \in DOMAIN d /\ d[k] # None /\ d[k] # ""

\* d.get(k) is truthy, for a field holding a number or None (<<>> is None)
TruthyNum(d, k) == k \in DOMAIN d /\ d[k] # <<>> /\ d[k][1] # 0

\* d.get(k) is truthy, for a field holding a bool
TruthyBool(d, k) == k \in DOMAIN d /\ d[k] = TRUE

\* bool(d) of a dict
TruthyDict(d) == DOMAIN d # {}

\* ---------------------------------------------------------------- providers

\* The five providers, in the order of the arguments of asyncio.gather.
Providers == <<"site_scraper", "tech_detector", "dns_whois", "google_business", "job_scanner">>

ProviderNames == {Providers[i] : i \in 1..Len(Providers)}

\* What the outside world does to one provider call.  "raise" is an exception
\* that escapes the worker's own try block.
SiteEnv == {[kind |-> k] : k \in {"ok", "timeout", "http_error", "error", "raise"}}

DetectedLists == {<<>>, <<"WordPress">>, <<"WordPress", "jQuery">>}

TechEnv ==
    {[kind |-> "ok", detected |-> d] : d \in DetectedLists}
        \cup {[kind |-> k] : k \in {"timeout", "http_error", "error", "raise"}}

DnsOutcomes == {"mx", "no_mx", "timeout"}

WhoisOutcomes == {"registrar", "no_registrar", "timeout"}

DnsEnv ==
    {[kind |-> "lookup", dns |-> d, whois |-> w] : d \in DnsOutcomes, w \in WhoisOutcomes}
        \cup {[kind |-> k] : k \in {"error", "raise"}}

\* Ratings of the places API, in tenths; <<>> is a place without a rating.
Ratings == {<<>>, <<45>>}

GoogleEnv ==
    {[kind |-> "ok", rating |-> r] : r \in Ratings}
        \cup {[kind |-> k] : k \in {"no_key", "no_results", "timeout", "error", "raise"}}

JobEnv ==
    {[kind |-> "ok", jobs |-> n] : n \in {0, 2}}
        \cup {[kind |-> k] : k \in {"no_key", "api_error", "timeout", "error", "raise"}}

Env(p) ==
    CASE p = "site_scraper" -> SiteEnv
      [] p = "tech_detector" -> TechEnv
      [] p = "dns_whois" -> DnsEnv
      [] p = "google_business" -> GoogleEnv
      [] p = "job_scanner" -> JobEnv

scrape_site(e) ==
    LET result == [source |-> "site_scraper", success |-> FALSE, error |-> None]
    IN  CASE e.kind = "ok" -> Return([result EXCEPT !.success = TRUE])
          [] e.kind = "timeout" ->
                Return([result EXCEPT !.error = "Timeout - site took too long to respond"])
          [] e.kind = "http_error" -> Return([result EXCEPT !.error = "HTTP error: 500"])
          [] e.kind = "error" -> Return([result EXCEPT !.error = "Error scraping site: e"])
          [] OTHER -> Raise("site_scraper raised")

detect_technologies(e) ==
    LET result == [source |-> "tech_detector", success |-> FALSE, detected |-> <<>>,
                   error |-> None]
    IN  CASE e.kind = "ok" ->
                Return([result EXCEPT
                    !.detected = [i \in 1..Len(e.detected) |-> [name |-> e.detected[i]]],
                    !.success = TRUE])
          [] e.kind = "timeout" ->
                Return([result EXCEPT !.error = "Timeout - site took too long to respond"])
          [] e.kind = "http_error" -> Return([result EXCEPT !.error = "HTTP error: 500"])
          [] e.kind = "error" ->
                Return([result EXCEPT !.error = "Error detecting technologies: e"])
          [] OTHER -> Raise("tech_detector raised")

\* _sync_dns_lookup swallows every exception and returns its dict.
sync_dns_lookup(o) ==
    [mx_records |-> IF o = "mx" THEN <<"mx.example.com">> ELSE <<>>,
     email_provider |-> IF o = "mx" THEN "Custom/Other" ELSE None]

\* _sync_whois_lookup swallows every exception and returns its dict.
sync_whois_lookup(o) ==
    [registrar |-> IF o = "registrar" THEN "Registrar Inc" ELSE None]

lookup_dns_whois(e) ==
    LET result == [source |-> "dns_whois", success |-> FALSE, dns |-> EmptyDict,
                   whois |-> EmptyDict, error |-> None]
        dns == IF e.dns = "timeout" THEN [error |-> "DNS lookup timed out"]
               ELSE sync_dns_lookup(e.dns)
        whois == IF e.whois = "timeout" THEN [error |-> "WHOIS lookup timed out"]
                 ELSE sync_whois_lookup(e.whois)
    IN  CASE e.kind = "lookup" ->
                Return([result EXCEPT !.dns = dns, !.whois = whois,
                                      !.success = TruthyDict(dns) \/ TruthyDict(whois)])
          [] e.kind = "error" ->
                Return([result EXCEPT !.error = "Error in DNS/WHOIS lookup: e"])
          [] OTHER -> Raise("dns_whois raised")

fetch_google_business(e) ==
    LET result == [source |-> "google_business", success |-> FALSE, rating |-> <<>>,
                   error |-> None]
    IN  CASE e.kind = "no_key" ->
                Return([result EXCEPT !.error = "Google Places API key not configured"])
          [] e.kind = "no_results" ->
                Return([result EXCEPT !.error = "No results found: ZERO_RESULTS"])
          [] e.kind = "ok" -> Return([result EXCEPT !.rating = e.rating, !.success = TRUE])
          [] e.kind = "timeout" ->
                Return([result EXCEPT
                    !.error = "Timeout - Google Places API took too long to respond"])
          [] e.kind = "error" ->
                Return([result EXCEPT !.error = "Error fetching Google Business data: e"])
          [] OTHER -> Raise("google_business raised")

scan_job_postings(e) ==
    LET result == [source |-> "job_scanner", success |-> FALSE, total_positions |-> 0,
                   error |-> None]
    IN  CASE e.kind = "no_key" ->
                Return([result EXCEPT !.error = "SerpAPI key not configured - skipping job scan"])
          [] e.kind = "api_error" -> Return([result EXCEPT !.error = "Invalid API key"])
          [] e.kind = "ok" /\ e.jobs = 0 ->
                Return([result EXCEPT !.success = TRUE, !.error = "No job postings found"])
          [] e.kind = "ok" ->
                Return([result EXCEPT !.total_positions = e.jobs, !.success = TRUE])
          [] e.kind = "timeout" ->
                Return([result EXCEPT !.error = "Timeout - job search took too long"])
          [] e.kind = "error" ->
                Return([result EXCEPT !.error = "Error scanning job postings: e"])
          [] OTHER -> Raise("job_scanner raised")

\* The call the fan-out makes for provider p when the world does e.
Worker(p, e) ==
    CASE p = "site_scraper" -> scrape_site(e)
      [] p = "tech_detector" -> detect_technologies(e)
      [] p = "dns_whois" -> lookup_dns_whois(e)
      [] p = "google_business" -> fetch_google_business(e)
      [] p = "job_scanner" -> scan_job_postings(e)

\* gather without return_exceptions: the first exception is raised to the caller
gather_propagating(outcomes) ==
    LET bad == {i \in 1..Len(outcomes) : outcomes[i].raised}
    IN  IF bad = {} THEN Return(outcomes)
        ELSE Raise(outcomes[CHOOSE i \in bad : \A k \in bad : i <= k].message)

\* worker_data with the providers that raised left out
organize_dropping(worker_results) ==
    LET kept == {i \in 1..Len(worker_results) : ~worker_results[i].raised}
    IN  [p \in {Providers[i] : i \in kept} |->
            worker_results[CHOOSE i \in kept : Providers[i] = p].value]

\* asyncio.gather(..., return_exceptions=True): the list of the five outcomes,
\* an exception taking the place of the result of the call that raised it.
gather(outcomes) == Return(outcomes)

\* worker_data of process_submission: one entry per provider, an exception
\* replaced by a failure dict carrying str(e).
organize(worker_results) ==
    LET entry(i) == IF ~worker_results[i].raised THEN worker_results[i].value
                    ELSE [success |-> FALSE, error |-> worker_results[i].message]
    IN  ("site_scraper" :> entry(1)) @@ ("tech_detector" :> entry(2))
            @@ ("dns_whois" :> entry(3)) @@ ("google_business" :> entry(4))
            @@ ("job_scanner" :> entry(5))

\* ----------------------------------------------------------- the scorer

\* worker_data.get(p, {})
GetEntry(worker_data, p) == IF p \in DOMAIN worker_data THEN worker_data[p] ELSE EmptyDict

\* d.get(k, {}) of an entry
GetDict(d, k) == IF k \in DOMAIN d THEN d[k] ELSE EmptyDict

\* the accumulation of available_sources and critical_sources
sufficiency_points(worker_data) ==
    LET site == GetEntry(worker_data, "site_scraper")
        tech == GetEntry(worker_data, "tech_detector")
        dns_data == GetEntry(worker_data, "dns_whois")
        google == GetEntry(worker_data, "google_business")
        jobs == GetEntry(worker_data, "job_scanner")
        a1 == IF TruthyBool(site, "success")
              THEN [src |-> <<"Website Content">>, pts |-> 2]
              ELSE [src |-> <<>>, pts |-> 0]
        a2 == IF TruthyBool(tech, "success") /\ TruthyList(tech, "detected")
              THEN [src |-> Append(a1.src, "Technology Stack"), pts |-> a1.pts + 1]
              ELSE a1
        a3 == IF TruthyBool(dns_data, "success")
                   /\ TruthyList(GetDict(dns_data, "dns"), "mx_records")
              THEN [src |-> Append(a2.src, "DNS Records"), pts |-> a2.pts + 1]
              ELSE a2
        a4 == IF TruthyBool(dns_data, "success")
                   /\ TruthyStr(GetDict(dns_data, "whois"), "registrar")
              THEN [src |-> Append(a3.src, "Domain WHOIS"), pts |-> a3.pts + 1]
              ELSE a3
        a5 == IF TruthyBool(google, "success") /\ TruthyNum(google, "rating")
              THEN [src |-> Append(a4.src, "Google Business Profile"), pts |-> a4.pts + 1]
              ELSE a4
        a6 == IF TruthyBool(jobs, "success")
                   /\ "total_positions" \in DOMAIN jobs /\ jobs["total_positions"] > 0
              THEN [src |-> Append(a5.src, "Job Postings"), pts |-> a5.pts]
              ELSE a5
    IN  a6

\* the scorer with a threshold of 2 points
check_data_sufficiency_two_points(worker_data) ==
    LET a == sufficiency_points(worker_data)
    IN  [is_sufficient |-> a.pts >= 2, available_sources |-> a.src]

\* the scorer with job postings worth a point
check_data_sufficiency_jobs_count(worker_data) ==
    LET a == sufficiency_points(worker_data)
        n == IF "Job Postings" \in {a.src[i] : i \in 1..Len(a.src)} THEN 1 ELSE 0
    IN  [is_sufficient |-> a.pts + n >= 3, available_sources |-> a.src]

check_data_sufficiency(worker_data) ==
    LET a == sufficiency_points(worker_data)
    IN  [is_sufficient |-> a.pts >= 3, available_sources |-> a.src]

\* ------------------------------------------------------- the synthesizer

\* max_retries of generate_profile
max_retries == 3

\* delays of generate_profile, in seconds
delays == <<1, 4, 16>>

\* Parsed synthesis responses.  public_reputation is modelled by the set of
\* the words validate_profile looks for that its lower-cased text contains.
Responses ==
    { [operational_snapshot |-> [detected_technologies |-> <<"WordPress">>],
       market_position |-> [public_reputation |-> {}],
       data_confidence |-> [overall_score |-> "High"]],
      [operational_snapshot |-> [detected_technologies |-> <<"WordPress", "React">>],
       market_position |-> [public_reputation |-> {"rating"}]],
      [market_position |-> [public_reputation |-> {"stars", "unavailable"}],
       data_confidence |-> [overall_score |-> "Low"]],
      EmptyDict }

\* What one client.messages.create call, followed by the parse, does.
ApiOutcomes ==
    {[kind |-> "ok", response |-> r] : r \in Responses}
        \cup {[kind |-> k] : k \in {"rate_limit", "api_error", "parse_error", "other"}}

\* The outcomes the system specification draws from.
PipelineApiOutcomes ==
    {o \in ApiOutcomes :
        \/ o.kind \in {"rate_limit", "parse_error"}
        \/ o.kind = "ok" /\ o.response # EmptyDict
                         /\ "operational_snapshot" \in DOMAIN o.response}

RECURSIVE TechIssues(_, _)
\* the issues of the loop over detected_techs
TechIssues(techs, valid) ==
    IF techs = <<>> THEN <<>>
    ELSE (IF Head(techs) \notin valid THEN <<[issue |-> "technology", tech |-> Head(techs)]>>
          ELSE <<>>) \o TechIssues(Tail(techs), valid)

validate_profile(profile, worker_data) ==
    LET tech_data == GetEntry(worker_data, "tech_detector")
        google_data == GetEntry(worker_data, "google_business")
        detected_techs ==
            IF "detected_technologies" \in DOMAIN profile["operational_snapshot"]
            THEN profile["operational_snapshot"]["detected_technologies"] ELSE <<>>
        detected == IF "detected" \in DOMAIN tech_data THEN tech_data["detected"] ELSE <<>>
        valid_techs == {detected[i].name : i \in 1..Len(detected)}
        i1 == IF "operational_snapshot" \in DOMAIN profile /\ TruthyBool(tech_data, "success")
              THEN TechIssues(detected_techs, valid_techs) ELSE <<>>
        reputation ==
            IF "public_reputation" \in DOMAIN profile["market_position"]
            THEN profile["market_position"]["public_reputation"] ELSE {}
        i2 == IF "market_position" \in DOMAIN profile
                   /\ ~TruthyBool(google_data, "success")
                   /\ ("stars" \in reputation \/ "rating" \in reputation)
                   /\ "no data" \notin reputation /\ "unavailable" \notin reputation
              THEN <<[issue |-> "review data"]>> ELSE <<>>
        issues == i1 \o i2
    IN  [is_valid |-> Len(issues) = 0, issues |-> issues]

\* One pass of the retry loop of generate_profile: attempt is the loop
\* variable (from 0), o what the API call and the parse did.  The pass either
\* returns (profile, error) or sleeps delays[attempt] and continues.
\* the retry step that takes its delay one place too far in the list
generate_attempt_next_delay(attempt, o, worker_data) ==
    IF o.kind = "ok"
    THEN [returns |-> TRUE, profile |-> <<o.response>>, error |-> None]
    ELSE IF attempt < max_retries - 1
    THEN [returns |-> FALSE, sleep |-> delays[attempt + 2]]
    ELSE [returns |-> TRUE, profile |-> <<>>, error |-> "Failed to generate profile"]

\* an attempt whose generic except clause returns at once
generate_attempt_other_is_fatal(attempt, o, worker_data) ==
    IF o.kind = "ok"
    THEN LET v == validate_profile(o.response, worker_data)
             profile == IF ~v.is_valid
                        THEN o.response @@ [x \in {"_validation_issues"} |-> v.issues]
                        ELSE o.response
         IN  [returns |-> TRUE, profile |-> <<profile>>, error |-> None]
    ELSE IF o.kind = "other"
    THEN [returns |-> TRUE, profile |-> <<>>, error |-> "Error generating profile: e"]
    ELSE IF attempt < max_retries - 1
    THEN [returns |-> FALSE, sleep |-> delays[attempt + 1]]
    ELSE [returns |-> TRUE, profile |-> <<>>,
          error |-> CASE o.kind = "rate_limit" -> "Rate limited by Anthropic API after retries"
                      [] o.kind = "api_error" -> "Anthropic API error: e"
                      [] OTHER -> "Failed to parse profile JSON: e"]

generate_attempt(attempt, o, worker_data) ==
    IF o.kind = "ok"
    THEN LET v == validate_profile(o.response, worker_data)
             profile == IF ~v.is_valid
                        THEN o.response @@ [x \in {"_validation_issues"} |-> v.issues]
                        ELSE o.response
         IN  [returns |-> TRUE, profile |-> <<profile>>, error |-> None]
    ELSE IF attempt < max_retries - 1
    THEN [returns |-> FALSE, sleep |-> delays[attempt + 1]]
    ELSE [returns |-> TRUE, profile |-> <<>>,
          error |-> CASE o.kind = "rate_limit" -> "Rate limited by Anthropic API after retries"
                      [] o.kind = "api_error" -> "Anthropic API error: e"
                      [] o.kind = "parse_error" -> "Failed to parse profile JSON: e"
                      [] OTHER -> "Error generating profile: e"]

\* ---------------------------------------------------------------- intake

\* A string is a sequence of tokens: a scheme, "www.", a label, ".", a port
\* (":8080") or "/".
Schemes == {"http://", "https://"}

Ports == {":8080"}

RECURSIVE RStripSlash(_)
\* url.rstrip("/")
RStripSlash(u) ==
    IF u # <<>> /\ u[Len(u)] = "/" THEN RStripSlash(SubSeq(u, 1, Len(u) - 1)) ELSE u

normalize_url(url) ==
    LET with_scheme == IF url # <<>> /\ url[1] \in Schemes THEN url ELSE <<"https://">> \o url
    IN  RStripSlash(with_scheme)

\* token.lower()
Lower(t) == IF t = "ACME" THEN "acme" ELSE t

LowerAll(u) == [i \in 1..Len(u) |-> Lower(u[i])]

\* urlparse(url).netloc of a url that starts with a scheme
Netloc(u) ==
    LET rest == Tail(u)
        stops == {i \in 1..Len(rest) : rest[i] = "/"}
        first == IF stops = {} THEN Len(rest) + 1
                 ELSE CHOOSE i \in stops : \A k \in stops : i <= k
    IN  SubSeq(rest, 1, first - 1)

extract_domain(url) ==
    LET domain == LowerAll(Netloc(normalize_url(url)))
    IN  IF domain # <<>> /\ domain[1] = "www." THEN Tail(domain) ELSE domain

\* s.endswith(suffix)
EndsWith(s, suffix) ==
    Len(suffix) <= Len(s) /\ SubSeq(s, Len(s) - Len(suffix) + 1, Len(s)) = suffix

generic_providers ==
    {<<n, ".", "com">> : n \in {"gmail", "yahoo", "outlook", "hotmail", "aol", "icloud",
                                "protonmail", "mail"}}

\* email_domain is email.split("@")[1]
validate_email_domain(email_domain, url) ==
    LET e == LowerAll(email_domain)
        url_domain == extract_domain(url)
    IN  IF e \in generic_providers THEN <<TRUE, TRUE>>
        ELSE IF e = url_domain THEN <<TRUE, FALSE>>
        ELSE IF EndsWith(e, <<".">> \o url_domain) THEN <<TRUE, FALSE>>
        ELSE IF EndsWith(url_domain, <<".">> \o e) THEN <<TRUE, FALSE>>
        ELSE <<FALSE, FALSE>>

\* The intake requests tried: the email's domain and the company_url.
Requests ==
    { [email |-> <<"acme", ".", "com">>, company_url |-> <<"acme", ".", "com">>],
      [email |-> <<"sub", ".", "acme", ".", "com">>,
       company_url |-> <<"https://", "ACME", ".", "com", "/">>],
      [email |-> <<"gmail", ".", "com">>, company_url |-> <<"acme", ".", "com">>],
      [email |-> <<"other", ".", "com">>, company_url |-> <<"acme", ".", "com">>] }

Ips == {"ip1"}

\* The rate limit of check_rate_limit (requests per window).
RateLimit == 10

\* The TTL of a rate key, 3600 seconds, in half hours.
WindowTicks == 2

\* A rate key of redis: its count and the half hours it has left to live; a
\* key that is not set has ttl 0.
NoKey == [count |-> 0, ttl |-> 0]

\* the comparison with > in place of >=
rate_check_above(client, ok, rate, ip) ==
    IF ~client THEN [returns |-> TRUE, allow |-> TRUE, store |-> "no_client"]
    ELSE IF ~ok THEN [returns |-> TRUE, allow |-> TRUE, store |-> "raised"]
    ELSE IF rate[ip].ttl > 0 /\ rate[ip].count > RateLimit
         THEN [returns |-> TRUE, allow |-> FALSE, store |-> "ok"]
    ELSE [returns |-> FALSE]

\* a store error rejects the request
rate_check_fail_closed(client, ok, rate, ip) ==
    IF ~client THEN [returns |-> TRUE, allow |-> TRUE, store |-> "no_client"]
    ELSE IF ~ok THEN [returns |-> TRUE, allow |-> FALSE, store |-> "raised"]
    ELSE IF rate[ip].ttl > 0 /\ rate[ip].count >= RateLimit
         THEN [returns |-> TRUE, allow |-> FALSE, store |-> "ok"]
    ELSE [returns |-> FALSE]

\* lines 150-156 and 164-165: no client, the get and the comparison.  The
\* call returns here, or goes on to the increment.
rate_check(client, ok, rate, ip) ==
    IF ~client THEN [returns |-> TRUE, allow |-> TRUE, store |-> "no_client"]
    ELSE IF ~ok THEN [returns |-> TRUE, allow |-> TRUE, store |-> "raised"]
    ELSE IF rate[ip].ttl > 0 /\ rate[ip].count >= RateLimit
         THEN [returns |-> TRUE, allow |-> FALSE, store |-> "ok"]
    ELSE [returns |-> FALSE]

\* the counting that sets the expiry with the first request of a key only
rate_count_expire_once(ok, rate, ip) ==
    IF ~ok THEN [allow |-> TRUE, rate |-> rate, store |-> "raised"]
    ELSE [allow |-> TRUE, store |-> "ok",
          rate |-> [rate EXCEPT ![ip] =
                        [count |-> @.count + 1,
                         ttl |-> IF @.count = 0 THEN WindowTicks ELSE @.ttl]]]

\* lines 158-165: incr and expire in one pipeline, then allow; a store that
\* raises allows as well
rate_count(ok, rate, ip) ==
    IF ~ok THEN [allow |-> TRUE, rate |-> rate, store |-> "raised"]
    ELSE [allow |-> TRUE, store |-> "ok",
          rate |-> [rate EXCEPT ![ip] = [count |-> @.count + 1, ttl |-> WindowTicks]]]

\* check_rate_limit on the counters `rate`: client is whether redis_client is
\* set, ok whether the store answers.  The allow flag and the counters after.
check_rate_limit(client, ok, rate, ip) ==
    LET c == rate_check(client, ok, rate, ip)
    IN  IF c.returns THEN [allow |-> c.allow, rate |-> rate]
        ELSE rate_count(ok, rate, ip)

\* ------------------------------------------------------------ the repository

JobIds == 1..NumJobs

Terminal == {"complete", "failed", "insufficient_data"}

\* create_submission: the table with the new row appended (its id and its
\* job_id are its index).
create_submission(subs, company_url, email, status, now) ==
    Append(subs, [company_url |-> company_url, email |-> email, status |-> status,
                  created_at |-> now, completed_at |-> <<>>])

\* the UPDATE without its WHERE job_id clause: every row is written
update_submission_status_every_row(subs, job_id, status, completed_at) ==
    [i \in DOMAIN subs |->
        IF completed_at # <<>>
        THEN [subs[i] EXCEPT !.status = status, !.completed_at = completed_at]
        ELSE [subs[i] EXCEPT !.status = status]]

\* the UPDATE that writes the status alone, whatever completed_at is
update_submission_status_status_only(subs, job_id, status, completed_at) ==
    [i \in DOMAIN subs |->
        IF i # job_id THEN subs[i] ELSE [subs[i] EXCEPT !.status = status]]

\* completed_at is <<>> for None and <<t>> for a datetime
update_submission_status(subs, job_id, status, completed_at) ==
    [i \in DOMAIN subs |->
        IF i # job_id THEN subs[i]
        ELSE IF completed_at # <<>>
             THEN [subs[i] EXCEPT !.status = status, !.completed_at = completed_at]
             ELSE [subs[i] EXCEPT !.status = status]]

\* the query without its company_url condition
get_submission_by_url_any_url(subs, url, now) ==
    LET hits == {i \in DOMAIN subs :
                    /\ subs[i].status = "complete"
                    /\ subs[i].created_at > now - 1}
    IN  {i \in hits : \A k \in hits : subs[k].created_at <= subs[i].created_at}

\* get_submission_by_url: the ids of the rows the query may return (the
\* newest complete row of that url created within the last 24 hours; rows
\* created at the same instant are returned in no defined order).
\* the query without its 24 hour condition
get_submission_by_url_any_age(subs, url, now) ==
    LET hits == {i \in DOMAIN subs :
                    /\ subs[i].company_url = url
                    /\ subs[i].status = "complete"}
    IN  {i \in hits : \A k \in hits : subs[k].created_at <= subs[i].created_at}

get_submission_by_url(subs, url, now) ==
    LET hits == {i \in DOMAIN subs :
                    /\ subs[i].company_url = url
                    /\ subs[i].status = "complete"
                    /\ subs[i].created_at > now - 1}
    IN  {i \in hits : \A k \in hits : subs[k].created_at <= subs[i].created_at}

\* an upsert in place of the INSERT: the newest row is overwritten
create_profile_overwriting(profs, submission_id, profile_json, data_sources_used, confidence_score) ==
    LET row == [submission_id |-> submission_id, profile_json |-> profile_json,
                data_sources_used |-> data_sources_used,
                confidence_score |-> confidence_score]
    IN  IF profs = <<>> THEN <<row>> ELSE [profs EXCEPT ![Len(profs)] = row]

create_profile(profs, submission_id, profile_json, data_sources_used, confidence_score) ==
    Append(profs, [submission_id |-> submission_id, profile_json |-> profile_json,
                   data_sources_used |-> data_sources_used,
                   confidence_score |-> confidence_score])

\* get_profile_by_submission_id: the rows the query may return
get_profile_by_submission_id(profs, submission_id) ==
    {i \in DOMAIN profs : profs[i].submission_id = submission_id}

\* -------------------------------------------------------------------- state

VARIABLES
    now,          \* the clock: an instant, in multiples of 24 hours
    submissions,  \* the submissions table; a row's id and job_id are its index
    profiles,     \* the profiles table
    redis,        \* redis_client: whether it is set, the rate counters, the url cache
    pc,           \* where the process_submission of each job stands
    loc,          \* the local variables of each process_submission
    emails,       \* per job, the notifications attempted: kind and success
    limiter,      \* the calls of check_rate_limit made on their own: the clock in
                  \* half hours, the calls between get and execute, the results
    feedback,     \* the feedback table
    response      \* the last answer of GET /profile/{token} or POST .../feedback

vars == <<now, submissions, profiles, redis, pc, loc, emails, limiter, feedback, response>>

\* no request answered yet
NoResponse == [code |-> 0]

\* no call of check_rate_limit yet
LimiterInit == [clock |-> 0, pending |-> [ip \in Ips |-> 0], log |-> <<>>]

NoEnv == [kind |-> "pending"]

\* generate_profile's own frame: the loop variable, and for the record the
\* number of API calls made and the sleeps taken, in order
GenInit == [attempt |-> 0, attempts |-> 0, sleeps |-> <<>>]

LocInit ==
    [submission |-> [email |-> <<>>, company_url |-> <<>>],
     cached |-> 0,
     cached_profile |-> <<>>,
     worker_env |-> [p \in ProviderNames |-> NoEnv],
     worker_out |-> [p \in ProviderNames |-> Return(EmptyDict)],
     worker_results |-> <<>>,
     worker_data |-> EmptyDict,
     is_sufficient |-> FALSE,
     available_sources |-> <<>>,
     gen |-> GenInit,
     profile |-> <<>>,
     error |-> None]

Init ==
    /\ now = 0
    /\ submissions = <<>>
    /\ profiles = <<>>
    /\ redis \in {[client |-> c, rate |-> [ip \in Ips |-> NoKey], cache |-> EmptyDict] :
                    c \in BOOLEAN}
    /\ pc = [j \in JobIds |-> "idle"]
    /\ loc = [j \in JobIds |-> LocInit]
    /\ emails = [j \in JobIds |-> <<>>]
    /\ limiter = LimiterInit
    /\ feedback = <<>>
    /\ response = NoResponse

\* Time passes to the next instant: every rate counter (TTL 1 hour) and every
\* cache entry (TTL 24 hours) set before it has expired.
Tick ==
    /\ now < MaxTime
    /\ now' = now + 1
    /\ redis' = [redis EXCEPT !.rate = [ip \in Ips |-> NoKey], !.cache = EmptyDict]
    /\ UNCHANGED <<submissions, profiles, pc, loc, emails, limiter, feedback, response>>

\* an intake that adds the background task whatever needs_review is
submit_intake_dispatching(ip, req, store_ok, db_ok) ==
    LET rl == check_rate_limit(redis.client, store_ok, redis.rate, ip)
        v == validate_email_domain(req.email, req.company_url)
        job_id == Len(submissions) + 1
        initial_status == IF v[2] THEN "manual_review" ELSE "queued"
    IN  /\ Len(submissions) < NumJobs
        /\ redis' = [redis EXCEPT !.rate = rl.rate]
        /\ IF rl.allow /\ v[1] /\ db_ok
           THEN /\ submissions' = create_submission(submissions,
                        normalize_url(req.company_url), req.email, initial_status, now)
                /\ pc' = [pc EXCEPT ![job_id] = "start"]
                /\ loc' = [loc EXCEPT ![job_id].submission = req]
           ELSE UNCHANGED <<submissions, pc, loc>>
        /\ UNCHANGED <<now, profiles, emails, limiter, feedback, response>>

\* an intake that creates the row before it looks at is_valid
submit_intake_row_first(ip, req, store_ok, db_ok) ==
    LET rl == check_rate_limit(redis.client, store_ok, redis.rate, ip)
        v == validate_email_domain(req.email, req.company_url)
        job_id == Len(submissions) + 1
        initial_status == IF v[2] THEN "manual_review" ELSE "queued"
    IN  /\ Len(submissions) < NumJobs
        /\ redis' = [redis EXCEPT !.rate = rl.rate]
        /\ IF rl.allow /\ db_ok
           THEN /\ submissions' = create_submission(submissions,
                        normalize_url(req.company_url), req.email, initial_status, now)
                /\ IF v[1] /\ ~v[2]
                   THEN /\ pc' = [pc EXCEPT ![job_id] = "start"]
                        /\ loc' = [loc EXCEPT ![job_id].submission = req]
                   ELSE UNCHANGED <<pc, loc>>
           ELSE UNCHANGED <<submissions, pc, loc>>
        /\ UNCHANGED <<now, profiles, emails, limiter, feedback, response>>

\* submit_intake: the rate limit, the domain check, the new row and the
\* dispatch of process_submission.  store_ok and db_ok are whether redis and
\* the database answer.
submit_intake(ip, req, store_ok, db_ok) ==
    LET rl == check_rate_limit(redis.client, store_ok, redis.rate, ip)
        v == validate_email_domain(req.email, req.company_url)
        job_id == Len(submissions) + 1
        initial_status == IF v[2] THEN "manual_review" ELSE "queued"
    IN  /\ Len(submissions) < NumJobs
        /\ redis' = [redis EXCEPT !.rate = rl.rate]
        /\ IF rl.allow /\ v[1] /\ db_ok
           THEN /\ submissions' = create_submission(submissions,
                        normalize_url(req.company_url), req.email, initial_status, now)
                /\ IF ~v[2]
                   THEN /\ pc' = [pc EXCEPT ![job_id] = "start"]
                        /\ loc' = [loc EXCEPT ![job_id].submission = req]
                   ELSE UNCHANGED <<pc, loc>>
           ELSE UNCHANGED <<submissions, pc, loc>>
        /\ UNCHANGED <<now, profiles, emails, limiter, feedback, response>>

\* the status code submit_intake answers with (200 for the IntakeResponse)
intake_response(ip, req, store_ok, db_ok) ==
    IF ~check_rate_limit(redis.client, store_ok, redis.rate, ip).allow THEN 429
    ELSE IF ~validate_email_domain(req.email, req.company_url)[1] THEN 400
    ELSE IF ~db_ok THEN 500
    ELSE 200

Intake == \E ip \in Ips, req \in Requests, store_ok \in BOOLEAN, db_ok \in BOOLEAN :
            /\ redis.rate[ip].count < MaxRequests
            /\ submit_intake(ip, req, store_ok, db_ok)

\* ------------------------------------------------------------ notifications

EmailOutcomes == {"sent", "no_key", "send_failed"}

\* a notifier that lets the exception of the send escape
send_email_raising(o) ==
    CASE o = "sent" -> Return(<<TRUE, None>>)
      [] o = "no_key" -> Return(<<FALSE, "Resend API key not configured">>)
      [] OTHER -> Raise("Failed to send email: e")

\* send_profile_email, send_insufficient_data_email and send_error_email have
\* the same shape: (success, error_message), the exception of the send caught.
send_email(o) ==
    CASE o = "sent" -> Return(<<TRUE, None>>)
      [] o = "no_key" -> Return(<<FALSE, "Resend API key not configured">>)
      [] OTHER -> Return(<<FALSE, "Failed to send email: e">>)

send_profile_email(o) == send_email(o)

send_insufficient_data_email(o) == send_email(o)

\* an error notifier that lets the exception of the send escape
send_error_email_raising(o) ==
    CASE o = "sent" -> Return(<<TRUE, None>>)
      [] o = "no_key" -> Return(<<FALSE, "Resend API key not configured">>)
      [] OTHER -> Raise("Failed to send email: e")

send_error_email(o) == send_email(o)

\* ------------------------------------------------------- process_submission

url_of(j) == normalize_url(loc[j].submission.company_url)

Goto(j, label) == pc' = [pc EXCEPT ![j] = label]

\* an exception reaches the except clause of process_submission, which reads
\* none of the locals but the arguments
ToHandler(j) ==
    /\ pc' = [pc EXCEPT ![j] = "handler"]
    /\ loc' = [loc EXCEPT ![j] = [LocInit EXCEPT !.submission = loc[j].submission]]

\* process_submission returns, or an exception leaves it: its locals are gone
Leave(j, label) ==
    /\ pc' = [pc EXCEPT ![j] = label]
    /\ loc' = [loc EXCEPT ![j] = LocInit]

\* One call of update_submission_status at label `at`: it either writes and
\* the run goes on at `next`, or raises.
StatusStep(j, at, status, completed_at, next) ==
    /\ pc[j] = at
    /\ \E db_ok \in BOOLEAN :
        IF db_ok
        THEN /\ submissions' = update_submission_status(submissions, j, status, completed_at)
             /\ Goto(j, next)
             /\ loc' = [loc EXCEPT ![j].gen = GenInit]
        ELSE /\ ToHandler(j)
             /\ UNCHANGED submissions
    /\ UNCHANGED <<now, profiles, redis, emails, limiter, feedback, response>>

\* One notification at label `at`; sent is the outcome of the send function.
EmailStep(j, at, kind, sent, next) ==
    /\ pc[j] = at
    /\ IF sent.raised
       THEN /\ ToHandler(j)
            /\ emails' = [emails EXCEPT ![j] = Append(@, [kind |-> kind, ok |-> FALSE])]
       ELSE /\ IF next = "done" THEN Leave(j, next) ELSE Goto(j, next) /\ UNCHANGED loc
            /\ emails' = [emails EXCEPT ![j] = Append(@, [kind |-> kind, ok |-> sent.value[1]])]
    /\ UNCHANGED <<now, submissions, profiles, redis, limiter, feedback, response>>

\* line 174
SetProcessing(j) == StatusStep(j, "start", "processing", <<>>, "cache_lookup")

\* lines 176-180
CacheLookup(j) ==
    /\ pc[j] = "cache_lookup"
    /\ \E db_ok \in BOOLEAN :
        IF ~db_ok THEN ToHandler(j)
        ELSE LET hits == get_submission_by_url(submissions, url_of(j), now)
             IN  IF hits = {} THEN Goto(j, "fanout") /\ UNCHANGED loc
                 ELSE \E c \in hits :
                        /\ loc' = [loc EXCEPT ![j].cached = c]
                        /\ Goto(j, IF submissions[c].status = "complete"
                                   THEN "cache_profile" ELSE "fanout")
    /\ UNCHANGED <<now, submissions, profiles, redis, emails, limiter, feedback, response>>

\* lines 182-183
CacheProfile(j) ==
    /\ pc[j] = "cache_profile"
    /\ \E db_ok \in BOOLEAN :
        IF ~db_ok THEN ToHandler(j)
        ELSE LET rows == get_profile_by_submission_id(profiles, loc[j].cached)
             IN  IF rows = {} THEN Goto(j, "fanout") /\ UNCHANGED loc
                 ELSE \E r \in rows :
                        /\ loc' = [loc EXCEPT ![j].cached_profile = <<profiles[r]>>]
                        /\ Goto(j, "cache_current")
    /\ UNCHANGED <<now, submissions, profiles, redis, emails, limiter, feedback, response>>

\* lines 185-186
CacheCurrent(j) ==
    /\ pc[j] = "cache_current"
    /\ \E db_ok \in BOOLEAN :
        IF ~db_ok THEN ToHandler(j)
        ELSE /\ Goto(j, IF j \in DOMAIN submissions THEN "cache_create" ELSE "fanout")
             /\ UNCHANGED loc
    /\ UNCHANGED <<now, submissions, profiles, redis, emails, limiter, feedback, response>>

\* lines 187-192
CacheCreate(j) ==
    /\ pc[j] = "cache_create"
    /\ \E db_ok \in BOOLEAN :
        IF ~db_ok THEN ToHandler(j) /\ UNCHANGED profiles
        ELSE LET cp == loc[j].cached_profile[1]
             IN  /\ profiles' = create_profile(profiles, j, cp.profile_json,
                                    cp.data_sources_used, cp.confidence_score)
                 /\ Goto(j, "cache_complete")
                 /\ UNCHANGED loc
    /\ UNCHANGED <<now, submissions, redis, emails, limiter, feedback, response>>

\* line 193
CacheComplete(j) == StatusStep(j, "cache_complete", "complete", <<now>>, "cache_email")

\* lines 194-195
CacheEmail(j) ==
    \E o \in EmailOutcomes :
        EmailStep(j, "cache_email", "profile_ready", send_profile_email(o), "done")

\* The provider outcomes the system specification draws from.
Scenarios ==
    { [site_scraper |-> [kind |-> "ok"],
       tech_detector |-> [kind |-> "ok", detected |-> <<"WordPress">>],
       dns_whois |-> [kind |-> "lookup", dns |-> "mx", whois |-> "registrar"],
       google_business |-> [kind |-> "ok", rating |-> <<45>>],
       job_scanner |-> [kind |-> "ok", jobs |-> 2]],
      [site_scraper |-> [kind |-> "ok"],
       tech_detector |-> [kind |-> "raise"],
       dns_whois |-> [kind |-> "lookup", dns |-> "timeout", whois |-> "timeout"],
       google_business |-> [kind |-> "no_key"],
       job_scanner |-> [kind |-> "no_key"]] }

\* The await of asyncio.gather returns (lines 198-205): every provider has
\* ended, as worker_out records, and the results are handed over in the order
\* of the arguments.
GatherResume(j, env, out) ==
    LET g == gather([i \in 1..Len(Providers) |-> out[Providers[i]]])
    IN  IF g.raised
        THEN ToHandler(j)
        ELSE /\ Goto(j, "organize")
             /\ loc' = [loc EXCEPT ![j].worker_env = env, ![j].worker_out = out,
                                   ![j].worker_results = g.value]

\* lines 198-205, in one step: the five providers run and gather returns
Gather(j) ==
    /\ pc[j] = "fanout"
    /\ \E env \in Scenarios :
        GatherResume(j, env, [p \in ProviderNames |-> Worker(p, env[p])])
    /\ UNCHANGED <<now, submissions, profiles, redis, emails, limiter, feedback, response>>

\* lines 198-205, provider by provider: the five calls are started
FanoutStart(j) ==
    /\ pc[j] = "fanout"
    /\ Goto(j, "gathering")
    /\ UNCHANGED <<now, submissions, profiles, redis, loc, emails, limiter, feedback, response>>

\* one provider's call ends, whatever the others do
WorkerFinish(j, p) ==
    /\ pc[j] = "gathering"
    /\ loc[j].worker_env[p] = NoEnv
    /\ \E e \in Env(p) :
        loc' = [loc EXCEPT ![j].worker_env[p] = e, ![j].worker_out[p] = Worker(p, e)]
    /\ UNCHANGED <<now, submissions, profiles, redis, pc, emails, limiter, feedback, response>>

\* a wait that returns with the first provider that ends
GatherReturn_first_completed(j) ==
    /\ pc[j] = "gathering"
    /\ \E p \in ProviderNames : loc[j].worker_env[p] # NoEnv
    /\ GatherResume(j, loc[j].worker_env, loc[j].worker_out)
    /\ UNCHANGED <<now, submissions, profiles, redis, emails, limiter, feedback, response>>

\* gather returns once no provider is running any more
GatherReturn(j) ==
    /\ pc[j] = "gathering"
    /\ \A p \in ProviderNames : loc[j].worker_env[p] # NoEnv
    /\ GatherResume(j, loc[j].worker_env, loc[j].worker_out)
    /\ UNCHANGED <<now, submissions, profiles, redis, emails, limiter, feedback, response>>

\* lines 207-219
Score(j) ==
    /\ pc[j] = "organize"
    /\ LET worker_data == organize(loc[j].worker_results)
           r == check_data_sufficiency(worker_data)
       IN  /\ loc' = [loc EXCEPT ![j].worker_data = worker_data,
                                 ![j].is_sufficient = r.is_sufficient,
                                 ![j].available_sources = r.available_sources]
           /\ Goto(j, IF ~r.is_sufficient THEN "insufficient" ELSE "generate")
    /\ UNCHANGED <<now, submissions, profiles, redis, emails, limiter, feedback, response>>

\* line 220
MarkInsufficient(j) ==
    StatusStep(j, "insufficient", "insufficient_data", <<now>>, "insufficient_email")

\* lines 221-222
InsufficientEmail(j) ==
    \E o \in EmailOutcomes :
        EmailStep(j, "insufficient_email", "insufficient_data",
                  send_insufficient_data_email(o), "done")

\* `not profile` of (profile, error): None and the empty dict are falsy
NotProfile(profile) == profile = <<>> \/ ~TruthyDict(profile[1])

\* a pass that sleeps with a blocking time.sleep: the pipeline is never
\* suspended, the next pass follows in the same turn of the event loop
GenStep_blocking(j, outcomes) ==
    /\ pc[j] = "generate"
    /\ \E has_key \in BOOLEAN, o \in outcomes :
        IF loc[j].gen.attempts = 0 /\ ~has_key
        THEN /\ loc' = [loc EXCEPT ![j].profile = <<>>,
                                   ![j].error = "Anthropic API key not configured"]
             /\ Goto(j, "failed_update")
        ELSE LET r == generate_attempt(loc[j].gen.attempt, o, loc[j].worker_data)
             IN  IF r.returns
                 THEN /\ loc' = [loc EXCEPT ![j].gen.attempts = @ + 1,
                                           ![j].profile = r.profile,
                                           ![j].error = r.error]
                      /\ Goto(j, IF r.error # None \/ NotProfile(r.profile)
                                 THEN "failed_update" ELSE "store_current")
                 ELSE /\ loc' = [loc EXCEPT ![j].gen.attempts = @ + 1,
                                           ![j].gen.attempt = @ + 1,
                                           ![j].gen.sleeps = Append(@, r.sleep)]
                      /\ Goto(j, "generate")
    /\ UNCHANGED <<now, submissions, profiles, redis, emails, limiter, feedback, response>>

\* line 225, up to the next suspension: generate_profile is entered (attempt
\* 0, where the API key is checked) or resumes after a sleep, and makes one
\* pass of its loop; when it returns, line 227 picks the branch.
GenStep(j, outcomes) ==
    /\ pc[j] = "generate"
    /\ \E has_key \in BOOLEAN, o \in outcomes :
        IF loc[j].gen.attempts = 0 /\ ~has_key
        THEN /\ loc' = [loc EXCEPT ![j].profile = <<>>,
                                   ![j].error = "Anthropic API key not configured"]
             /\ Goto(j, "failed_update")
        ELSE LET r == generate_attempt(loc[j].gen.attempt, o, loc[j].worker_data)
             IN  IF r.returns
                 THEN /\ loc' = [loc EXCEPT ![j].gen.attempts = @ + 1,
                                           ![j].profile = r.profile,
                                           ![j].error = r.error]
                      /\ Goto(j, IF r.error # None \/ NotProfile(r.profile)
                                 THEN "failed_update" ELSE "store_current")
                 ELSE /\ loc' = [loc EXCEPT ![j].gen.attempts = @ + 1,
                                           ![j].gen.sleeps = Append(@, r.sleep)]
                      /\ Goto(j, "gen_sleep")
    /\ UNCHANGED <<now, submissions, profiles, redis, emails, limiter, feedback, response>>

GenAttempt(j) == GenStep(j, PipelineApiOutcomes)

GenAttemptAny(j) == GenStep(j, ApiOutcomes)

\* asyncio.sleep is over: continue with the next pass of the loop
GenWake(j) ==
    /\ pc[j] = "gen_sleep"
    /\ loc' = [loc EXCEPT ![j].gen.attempt = @ + 1]
    /\ Goto(j, "generate")
    /\ UNCHANGED <<now, submissions, profiles, redis, emails, limiter, feedback, response>>

\* line 228
MarkFailed(j) == StatusStep(j, "failed_update", "failed", <<now>>, "failed_email")

\* lines 229-230
FailedEmail(j) ==
    \E o \in EmailOutcomes : EmailStep(j, "failed_email", "error", send_error_email(o), "done")

\* lines 233-234
StoreCurrent(j) ==
    /\ pc[j] = "store_current"
    /\ \E db_ok \in BOOLEAN :
        IF ~db_ok THEN ToHandler(j)
        ELSE /\ Goto(j, IF j \in DOMAIN submissions THEN "store_profile"
                        ELSE "complete_update")
             /\ loc' = [loc EXCEPT ![j].gen = GenInit]
    /\ UNCHANGED <<now, submissions, profiles, redis, emails, limiter, feedback, response>>

\* profile.get("data_confidence", {}).get("overall_score", "Medium")
confidence_of(profile) ==
    LET dc == GetDict(profile, "data_confidence")
    IN  IF "overall_score" \in DOMAIN dc THEN dc["overall_score"] ELSE "Medium"

\* lines 235-241
StoreProfile(j) ==
    /\ pc[j] = "store_profile"
    /\ \E db_ok \in BOOLEAN :
        IF ~db_ok THEN ToHandler(j) /\ UNCHANGED profiles
        ELSE /\ profiles' = create_profile(profiles, j, loc[j].profile[1],
                                loc[j].available_sources, confidence_of(loc[j].profile[1]))
             /\ Goto(j, "complete_update")
             /\ UNCHANGED loc
    /\ UNCHANGED <<now, submissions, redis, emails, limiter, feedback, response>>

\* the notification is sent before the status is written
MarkComplete_after_email(j) ==
    /\ pc[j] = "complete_update"
    /\ Goto(j, "complete_email")
    /\ UNCHANGED <<now, submissions, profiles, redis, loc, emails, limiter, feedback, response>>

\* line 244
MarkComplete(j) == StatusStep(j, "complete_update", "complete", <<now>>, "complete_email")

\* line 245
CompleteEmail(j) ==
    \E o \in EmailOutcomes :
        EmailStep(j, "complete_email", "profile_ready", send_profile_email(o), "cache_store")

\* lines 247-253
CacheStore(j) ==
    /\ pc[j] = "cache_store"
    /\ \E store_ok \in BOOLEAN :
        redis' = IF redis.client /\ store_ok
                 THEN [redis EXCEPT !.cache = (url_of(j) :> j) @@ @]
                 ELSE redis
    /\ Leave(j, "done")
    /\ UNCHANGED <<now, submissions, profiles, emails, limiter, feedback, response>>

\* lines 255-257: the except clause; an exception of its own status update
\* leaves process_submission
Handler(j) ==
    /\ pc[j] = "handler"
    /\ \E db_ok \in BOOLEAN :
        IF db_ok
        THEN /\ submissions' = update_submission_status(submissions, j, "failed", <<now>>)
             /\ Goto(j, "handler_email")
             /\ UNCHANGED loc
        ELSE /\ Leave(j, "crashed")
             /\ UNCHANGED submissions
    /\ UNCHANGED <<now, profiles, redis, emails, limiter, feedback, response>>

\* lines 258-261: an exception of the notification is swallowed
HandlerEmail(j) ==
    /\ pc[j] = "handler_email"
    /\ \E o \in EmailOutcomes :
        LET sent == send_error_email(o)
        IN  emails' = [emails EXCEPT ![j] =
                Append(@, [kind |-> "error", ok |-> ~sent.raised /\ sent.value[1]])]
    /\ Leave(j, "done")
    /\ UNCHANGED <<now, submissions, profiles, redis, limiter, feedback, response>>

Pipeline(j) ==
    \/ SetProcessing(j) \/ CacheLookup(j) \/ CacheProfile(j) \/ CacheCurrent(j)
    \/ CacheCreate(j) \/ CacheComplete(j) \/ CacheEmail(j)
    \/ Gather(j) \/ Score(j) \/ MarkInsufficient(j) \/ InsufficientEmail(j)
    \/ GenAttempt(j) \/ GenWake(j) \/ MarkFailed(j) \/ FailedEmail(j)
    \/ StoreCurrent(j) \/ StoreProfile(j) \/ MarkComplete(j) \/ CompleteEmail(j)
    \/ CacheStore(j) \/ Handler(j) \/ HandlerEmail(j)

Next == Intake \/ Tick \/ \E j \in JobIds : Pipeline(j)

Spec == Init /\ [][Next]_vars

\* ------------------------------------------------- the fan-out on its own

\* One submission whose process_submission has reached the fan-out
\* (intake, line 174 and a cache miss are behind it).
RunningRow ==
    [company_url |-> <<"https://", "acme", ".", "com">>, email |-> <<"acme", ".", "com">>,
     status |-> "processing", created_at |-> 0, completed_at |-> <<>>]

RunningLoc ==
    [LocInit EXCEPT !.submission =
        [email |-> <<"acme", ".", "com">>, company_url |-> <<"acme", ".", "com">>]]

InitFanout ==
    /\ now = 0
    /\ submissions = <<RunningRow>>
    /\ profiles = <<>>
    /\ redis = [client |-> TRUE, rate |-> [ip \in Ips |-> [count |-> 1, ttl |-> WindowTicks]], cache |-> EmptyDict]
    /\ pc = [j \in JobIds |-> IF j = 1 THEN "fanout" ELSE "idle"]
    /\ loc = [j \in JobIds |-> IF j = 1 THEN RunningLoc ELSE LocInit]
    /\ emails = [j \in JobIds |-> <<>>]
    /\ limiter = LimiterInit
    /\ feedback = <<>>
    /\ response = NoResponse

NextFanout ==
    \E j \in JobIds :
        \/ FanoutStart(j)
        \/ \E p \in ProviderNames : WorkerFinish(j, p)
        \/ GatherReturn(j)
        \/ Score(j)

\* The five providers running concurrently, gather and the scorer.
SpecFanout == InitFanout /\ [][NextFanout]_vars

\* --------------------------------------------------- the fan-out: claims

\* process_submission of job j has built worker_data and scored it
Scored(j) == pc[j] \in {"insufficient", "generate"}

\* what the world did to provider p of job j
EnvOf(j, p) == loc[j].worker_env[p]

\* the provider threw, timed out or got a non-success answer
ProviderFailed(e) ==
    \/ e.kind \in {"timeout", "http_error", "error", "raise", "no_key", "no_results",
                   "api_error"}
    \/ e.kind = "lookup" /\ e.dns = "timeout" /\ e.whois = "timeout"

FailedProviders(j) == {p \in ProviderNames : ProviderFailed(EnvOf(j, p))}

\* C4: whatever subset of the five providers fails, the aggregated dataset
\* has exactly five entries, one under each provider's key.
C4_DatasetComplete ==
    \A j \in JobIds :
        Scored(j) =>
            /\ DOMAIN loc[j].worker_data = ProviderNames
            /\ Cardinality(DOMAIN loc[j].worker_data) = 5

\* two providers failed, one of them by raising, and the dataset has five entries
C4_Witness ==
    \E j \in JobIds :
        /\ Scored(j)
        /\ Cardinality(FailedProviders(j)) = 2
        /\ EnvOf(j, "tech_detector").kind = "raise"
        /\ EnvOf(j, "site_scraper").kind = "timeout"
        /\ Cardinality(DOMAIN loc[j].worker_data) = 5

\* C5: every provider that threw, timed out or got a non-success answer is in
\* the dataset with success = false and a non-empty error string.
C5_FailureCaptured ==
    \A j \in JobIds : \A p \in ProviderNames :
        (Scored(j) /\ ProviderFailed(EnvOf(j, p))) =>
            /\ loc[j].worker_data[p].success = FALSE
            /\ loc[j].worker_data[p].error \notin {None, ""}

\* C6: a failing provider neither cancels a sibling nor aborts the fan-out:
\* the run never goes to the error handler, and once gather has returned
\* every provider has ended with the result its own call gives.
C6_FailureIsolated ==
    \A j \in JobIds :
        /\ pc[j] # "handler"
        /\ (pc[j] = "organize" \/ Scored(j)) =>
                \A i \in 1..Len(Providers) :
                    /\ EnvOf(j, Providers[i]) # NoEnv
                    /\ loc[j].worker_results[i] = Worker(Providers[i], EnvOf(j, Providers[i]))

\* three providers raised and the two others' successful results were scored
C6_Witness ==
    \E j \in JobIds :
        /\ Scored(j)
        /\ \A p \in {"tech_detector", "google_business", "job_scanner"} :
                EnvOf(j, p).kind = "raise"
        /\ loc[j].worker_data["site_scraper"].success
        /\ loc[j].worker_data["dns_whois"].success
        /\ TruthyList(loc[j].worker_data["dns_whois"].dns, "mx_records")

B(x) == IF x THEN 1 ELSE 0

SiteSucceeded(j) == EnvOf(j, "site_scraper").kind = "ok"

TechDetected(j) ==
    EnvOf(j, "tech_detector").kind = "ok" /\ EnvOf(j, "tech_detector").detected # <<>>

MxPresent(j) == EnvOf(j, "dns_whois").kind = "lookup" /\ EnvOf(j, "dns_whois").dns = "mx"

RegistrarKnown(j) ==
    EnvOf(j, "dns_whois").kind = "lookup" /\ EnvOf(j, "dns_whois").whois = "registrar"

RatingPresent(j) ==
    EnvOf(j, "google_business").kind = "ok" /\ EnvOf(j, "google_business").rating # <<>>

HiringSignal(j) == EnvOf(j, "job_scanner").kind = "ok" /\ EnvOf(j, "job_scanner").jobs > 0

WeakSignals(j) ==
    B(TechDetected(j)) + B(MxPresent(j)) + B(RegistrarKnown(j)) + B(RatingPresent(j))

C8_ContentAloneSufficient ==
    \A j \in JobIds :
        (Scored(j) /\ SiteSucceeded(j) /\ WeakSignals(j) = 0 /\ ~HiringSignal(j)
            /\ FailedProviders(j) = ProviderNames \ {"site_scraper"})
            => loc[j].is_sufficient

\* C9 as stated: without the content source a dataset is never sufficient.
C9_NeverSufficientWithoutContent ==
    \A j \in JobIds : (Scored(j) /\ ~SiteSucceeded(j)) => ~loc[j].is_sufficient

\* C9 as amended: without the content source a dataset is sufficient only if
\* at least three of the four signals technologies, MX records, registrar and
\* rating are present; the hiring count never helps.
C9_ThreeSignalsWithoutContent ==
    \A j \in JobIds :
        (Scored(j) /\ ~SiteSucceeded(j) /\ loc[j].is_sufficient) => WeakSignals(j) >= 3

\* no content, two of the four signals and a hiring signal: insufficient
C9_Witness ==
    \E j \in JobIds :
        /\ Scored(j)
        /\ EnvOf(j, "site_scraper").kind = "raise"
        /\ TechDetected(j) /\ RatingPresent(j) /\ WeakSignals(j) = 2 /\ HiringSignal(j)
        /\ ~loc[j].is_sufficient

\* ------------------------------------------------ the lifecycle: claims

\* the pipeline of every dispatched submission keeps running
SpecLive == Init /\ [][Next]_vars /\ \A j \in JobIds : WF_vars(Pipeline(j))

StatusOf(j) == submissions[j].status

StatusGraph ==
    {<<"queued", "processing">>, <<"processing", "complete">>,
     <<"processing", "failed">>, <<"processing", "insufficient_data">>}

\* a step along the edges E: rows keep their status or follow an edge, and a
\* new row is queued or in manual review
StatusStepsAlong(E) ==
    /\ \A j \in 1..Len(submissions) :
            submissions'[j].status # submissions[j].status
                => <<submissions[j].status, submissions'[j].status>> \in E
    /\ \A j \in (Len(submissions) + 1)..Len(submissions') :
            submissions'[j].status \in {"queued", "manual_review"}

\* C1 as stated: every status change follows queued -> processing ->
\* {complete, failed, insufficient_data}, manual_review being set at intake only.
C1_StatusGraphOnly == [][StatusStepsAlong(StatusGraph)]_vars

\* C1 as amended: every status change follows the graph or the edge
\* queued -> failed, which the error handler takes when the update to
\* processing itself raises; complete and insufficient_data are entered from
\* processing only and no status moves backward.
C1_StatusGraphWithHandler ==
    [][StatusStepsAlong(StatusGraph \cup {<<"queued", "failed">>})]_vars

\* the update to processing has raised: the handler runs on a queued submission
C1_Witness ==
    \E j \in 1..Len(submissions) : StatusOf(j) = "queued" /\ pc[j] = "handler"

Settled == Terminal \cup {"manual_review"}

\* C2: once a submission is complete, failed, insufficient_data or in
\* manual_review, no step changes its status, a failed notification and the
\* error handler included.
C2_SettledStatusKept ==
    [][\A j \in 1..Len(submissions) :
            StatusOf(j) \in Settled => submissions'[j].status = StatusOf(j)]_vars

\* a completed submission whose notification failed, its run over, next to a
\* submission in manual review
C2_Witness ==
    \E j \in 1..Len(submissions), k \in 1..Len(submissions) :
        /\ StatusOf(j) = "complete" /\ pc[j] = "done"
        /\ \E i \in 1..Len(emails[j]) :
                emails[j][i] = [kind |-> "profile_ready", ok |-> FALSE]
        /\ StatusOf(k) = "manual_review"

\* C3: every dispatched submission eventually reaches complete, failed or
\* insufficient_data, every external call returning or raising.
C3_EventuallyTerminal ==
    \A j \in JobIds :
        (pc[j] = "start") ~> (j <= Len(submissions) /\ StatusOf(j) \in Terminal)

\* ------------------------------------------------- the synthesizer: claims

\* what the five providers met, one outcome each
EnvWith(s, t, d, g, b) ==
    [p \in ProviderNames |->
        CASE p = "site_scraper" -> s
          [] p = "tech_detector" -> t
          [] p = "dns_whois" -> d
          [] p = "google_business" -> g
          [] OTHER -> b]

\* process_submission at line 225, after a fan-out that scored sufficient
InitGen ==
    /\ now = 0
    /\ submissions = <<RunningRow>>
    /\ profiles = <<>>
    /\ redis = [client |-> TRUE, rate |-> [ip \in Ips |-> [count |-> 1, ttl |-> WindowTicks]], cache |-> EmptyDict]
    /\ pc = [j \in JobIds |-> IF j = 1 THEN "generate" ELSE "idle"]
    /\ emails = [j \in JobIds |-> <<>>]
    /\ limiter = LimiterInit
    /\ feedback = <<>>
    /\ response = NoResponse
    /\ \E s \in SiteEnv, t \in TechEnv, d \in DnsEnv, g \in GoogleEnv, b \in JobEnv :
        LET env == EnvWith(s, t, d, g, b)
            out == [p \in ProviderNames |-> Worker(p, env[p])]
            worker_results == gather([i \in 1..Len(Providers) |-> out[Providers[i]]]).value
            worker_data == organize(worker_results)
            r == check_data_sufficiency(worker_data)
        IN  /\ r.is_sufficient
            /\ loc = [j \in JobIds |->
                        IF j # 1 THEN LocInit
                        ELSE [RunningLoc EXCEPT !.worker_env = env, !.worker_out = out,
                                !.worker_results = worker_results,
                                !.worker_data = worker_data,
                                !.is_sufficient = TRUE,
                                !.available_sources = r.available_sources]]

NextGen == \E j \in JobIds : GenAttemptAny(j) \/ GenWake(j)

\* generate_profile on its own, over every outcome of the API call
SpecGen == InitGen /\ [][NextGen]_vars

\* generate_profile has returned to process_submission
Returned(j) == pc[j] \in {"failed_update", "store_current"}

Gen(j) == loc[j].gen

\* C10: at most 3 attempts; 1 s of sleep after a failed first attempt, 4 s
\* after a failed second, none after the last; a success on the third attempt
\* returns (profile, no error); three failures return (no profile, an error)
\* after exactly 3 attempts and the sleeps 1 s and 4 s.
C10_RetrySchedule ==
    \A j \in JobIds :
        /\ Gen(j).attempts <= 3
        /\ Gen(j).sleeps \in {<<>>, <<1>>, <<1, 4>>}
        /\ pc[j] \in {"generate", "gen_sleep"} => Len(Gen(j).sleeps) = Gen(j).attempts
        /\ (Returned(j) /\ Gen(j).attempts > 0) =>
                Len(Gen(j).sleeps) = Gen(j).attempts - 1
        /\ (Returned(j) /\ Gen(j).attempts = 3 /\ loc[j].error = None) =>
                loc[j].profile # <<>> /\ Gen(j).sleeps = <<1, 4>>
        /\ (Returned(j) /\ Gen(j).attempts > 0 /\ loc[j].error # None) =>
                /\ Gen(j).attempts = 3
                /\ Gen(j).sleeps = <<1, 4>>
                /\ loc[j].profile = <<>>
                /\ loc[j].error # ""

\* two failed attempts, the sleeps of 1 s and 4 s, and a third that succeeds
C10_Witness ==
    \E j \in JobIds :
        /\ Returned(j)
        /\ Gen(j).attempts = 3 /\ Gen(j).sleeps = <<1, 4>>
        /\ loc[j].error = None /\ loc[j].profile # <<>>
        /\ TruthyDict(loc[j].profile[1])

\* ------------------------------------------- the synthesis failure: claims

\* no row of the profiles table t belongs to submission j
NoProfileOf(t, j) == \A i \in 1..Len(t) : t[i].submission_id # j

ErrorMail(m) == m \in {[kind |-> "error", ok |-> b] : b \in BOOLEAN}

PriorComplete(j) ==
    {k \in 1..Len(submissions) :
        /\ k # j
        /\ submissions[k].company_url = submissions[j].company_url
        /\ submissions[k].status = "complete"
        /\ submissions[k].created_at > now - 1}

SameContent(r, q) ==
    /\ r.profile_json = q.profile_json
    /\ r.data_sources_used = q.data_sources_used
    /\ r.confidence_score = q.confidence_score

\* submission j has a Profile equal in content to that of a prior complete
\* submission of its url
ClonedProfile(t, j) ==
    \E r \in 1..Len(t), q \in 1..Len(t) :
        /\ t[r].submission_id = j
        /\ t[q].submission_id # j
        /\ submissions[t[q].submission_id].company_url = submissions[j].company_url
        /\ submissions[t[q].submission_id].status = "complete"
        /\ SameContent(t[r], t[q])

\* no provider has been called and generate_profile has not been entered
NothingInvoked(l) ==
    /\ \A p \in ProviderNames : l.worker_env[p] = NoEnv
    /\ l.gen = GenInit
    /\ l.worker_results = <<>> /\ l.profile = <<>>

CachePath ==
    {"cache_profile", "cache_current", "cache_create", "cache_complete", "cache_email"}

\* the label that follows each label of the cache path
CacheNext(l) ==
    CASE l = "cache_lookup" -> "cache_profile"
      [] l = "cache_profile" -> "cache_current"
      [] l = "cache_current" -> "cache_create"
      [] l = "cache_create" -> "cache_complete"
      [] l = "cache_complete" -> "cache_email"
      [] OTHER -> "done"

\* C12: when a complete submission of the same normalized url created within
\* the preceding 24 hours exists at the lookup, the new submission goes
\* through the cache path only: it gets a Profile with the payload, sources
\* and confidence of a prior one, becomes complete, and neither a provider
\* nor generate_profile is called (a raising repository call leads to the
\* except clause, never to the fan-out).
C12_CacheHitClones ==
    [][\A j \in 1..Len(submissions) :
        /\ (pc[j] = "cache_lookup" /\ PriorComplete(j) # {} /\ pc'[j] # pc[j]) =>
                pc'[j] \in {"cache_profile", "handler"}
        /\ (pc[j] \in CachePath /\ pc'[j] # pc[j]) =>
                pc'[j] \in {CacheNext(pc[j]), "handler"}
        /\ pc'[j] \in CachePath =>
            /\ NothingInvoked(loc'[j])
            /\ submissions'[loc'[j].cached].company_url = submissions'[j].company_url
            /\ submissions'[loc'[j].cached].status = "complete"
            /\ loc'[j].cached # j
        /\ pc'[j] \in {"cache_complete", "cache_email"} => ClonedProfile(profiles, j)'
        /\ pc'[j] = "cache_email" => submissions'[j].status = "complete"
        /\ (pc[j] = "cache_email" /\ pc'[j] = "done") =>
            /\ submissions'[j].status = "complete"
            /\ ClonedProfile(profiles, j)'
            /\ emails'[j][Len(emails'[j])].kind = "profile_ready"
      ]_vars

\* a second submission of a url completed from the cache, its Profile a
\* copy of the first one's, no provider called for it
C12_Witness ==
    \E j \in 1..Len(submissions) :
        /\ pc[j] = "cache_email"
        /\ StatusOf(j) = "complete"
        /\ ClonedProfile(profiles, j)
        /\ NothingInvoked(loc[j])
        /\ Cardinality({i \in 1..Len(profiles) : profiles[i].submission_id = j}) = 1

\* ------------------------------------------------ the rate limiter on its own

\* Number of check_rate_limit calls a limiter specification makes.
MaxCalls == 13

\* The limiter's clock stops after MaxRateTicks half hours.
MaxRateTicks == 4

Calls == Len(limiter.log) + limiter.pending["ip1"]

\* the result of a call, as it returns to submit_intake
Logged(ip, allow, store) ==
    Append(limiter.log, [ip |-> ip, at |-> limiter.clock, allow |-> allow, store |-> store])

\* lines 150-156 of one call: it returns, or it is about to increment.
\* oks is what the store may do: answer (TRUE) or raise (FALSE).
RateCheck(ip, oks) ==
    /\ Calls < MaxCalls
    /\ \E ok \in oks :
        LET c == rate_check(redis.client, ok, redis.rate, ip)
        IN  limiter' = IF c.returns
                       THEN [limiter EXCEPT !.log = Logged(ip, c.allow, c.store)]
                       ELSE [limiter EXCEPT !.pending[ip] = @ + 1]
    /\ UNCHANGED <<now, submissions, profiles, redis, pc, loc, emails, feedback, response>>

\* lines 158-163 of one call: the pipeline is executed and the call allows
RateCount(ip, oks) ==
    /\ limiter.pending[ip] > 0
    /\ \E ok \in oks :
        LET c == rate_count(ok, redis.rate, ip)
        IN  /\ redis' = [redis EXCEPT !.rate = c.rate]
            /\ limiter' = [limiter EXCEPT !.pending[ip] = @ - 1,
                                          !.log = Logged(ip, c.allow, c.store)]
    /\ UNCHANGED <<now, submissions, profiles, pc, loc, emails, feedback, response>>

\* half an hour passes: every rate key is half an hour nearer to its expiry
RateTick ==
    /\ limiter.clock < MaxRateTicks
    /\ limiter' = [limiter EXCEPT !.clock = @ + 1]
    /\ redis' = [redis EXCEPT !.rate =
                    [ip \in Ips |-> IF redis.rate[ip].ttl <= 1 THEN NoKey
                                    ELSE [redis.rate[ip] EXCEPT !.ttl = @ - 1]]]
    /\ UNCHANGED <<now, submissions, profiles, pc, loc, emails, feedback, response>>

Healthy == [client |-> TRUE, rate |-> [ip \in Ips |-> NoKey], cache |-> EmptyDict]

\* the service up, redis connected, no request yet
InitRate ==
    /\ now = 0
    /\ submissions = <<>>
    /\ profiles = <<>>
    /\ redis = Healthy
    /\ pc = [j \in JobIds |-> "idle"]
    /\ loc = [j \in JobIds |-> LocInit]
    /\ emails = [j \in JobIds |-> <<>>]
    /\ limiter = LimiterInit
    /\ feedback = <<>>
    /\ response = NoResponse

NoCallRunning == \A ip \in Ips : limiter.pending[ip] = 0

\* a call starts once the one before it has returned
SeqRateCheck(ip) == NoCallRunning /\ RateCheck(ip, {TRUE})

SeqRateCount(ip) == RateCount(ip, {TRUE})

\* time passes between two calls
SeqRateTick == NoCallRunning /\ RateTick

\* one call after the other, the store answering, time passing
NextRate ==
    \/ \E ip \in Ips : SeqRateCheck(ip) \/ SeqRateCount(ip)
    \/ SeqRateTick

SpecRate == InitRate /\ [][NextRate]_vars

\* the log entries before entry i that were allowed at or after instant t
AllowedSince(i, t) ==
    {k \in 1..(i - 1) : limiter.log[k].allow /\ limiter.log[k].at >= t}

\* C13: one call after the other on a healthy store: a call is allowed while
\* fewer than 10 calls were allowed before it (the 1st to the 10th); a call
\* whose 10 predecessors were all allowed within the hour before it (the
\* 11th) is rejected; a call with no allowed call in the hour before it is
\* allowed again.
C13_TenPerWindow ==
    \A i \in 1..Len(limiter.log) :
        LET e == limiter.log[i]
        IN  /\ Cardinality(AllowedSince(i, 0)) < RateLimit => e.allow
            /\ (i > RateLimit /\ \A k \in (i - RateLimit)..(i - 1) :
                    limiter.log[k].allow /\ limiter.log[k].at > e.at - WindowTicks)
                    => ~e.allow
            /\ AllowedSince(i, e.at - WindowTicks + 1) = {} => e.allow

\* ten calls allowed, the eleventh rejected within the hour, and a call
\* allowed after the hour has passed
C13_Witness ==
    /\ Len(limiter.log) = 12
    /\ \A i \in 1..10 : limiter.log[i].allow /\ limiter.log[i].at = 0
    /\ ~limiter.log[11].allow /\ limiter.log[11].at = 1
    /\ limiter.log[12].allow /\ limiter.log[12].at = 2

\* any number of calls is between its get and its execute
ConcRateCheck(ip) == RateCheck(ip, {TRUE})

ConcRateCount(ip) == RateCount(ip, {TRUE})

NextRace == \E ip \in Ips : ConcRateCheck(ip) \/ ConcRateCount(ip)

\* concurrent calls on a healthy store within one window
SpecRace == InitRate /\ [][NextRace]_vars

AllowedCalls == {i \in 1..Len(limiter.log) : limiter.log[i].allow}

\* C14: whatever the interleaving of concurrent calls for one IP on a healthy
\* store within one window, at most 10 calls are allowed and the stored
\* counter never exceeds 10.
C14_AtMostTenAllowed ==
    /\ Cardinality(AllowedCalls) <= RateLimit
    /\ \A ip \in Ips : redis.rate[ip].count <= RateLimit

\* Number of calls in which the store raises.
MaxFaults == 2

\* the service up, redis connected or not (lifespan sets redis_client to None
\* when the ping fails), no request yet
InitRateFaulty ==
    /\ now = 0
    /\ submissions = <<>>
    /\ profiles = <<>>
    /\ redis \in {[Healthy EXCEPT !.client = c] : c \in BOOLEAN}
    /\ pc = [j \in JobIds |-> "idle"]
    /\ loc = [j \in JobIds |-> LocInit]
    /\ emails = [j \in JobIds |-> <<>>]
    /\ limiter = LimiterInit
    /\ feedback = <<>>
    /\ response = NoResponse

\* what the store may do at the next operation: answer, or raise
StoreMay ==
    IF Cardinality({i \in 1..Len(limiter.log) : limiter.log[i].store = "raised"}) < MaxFaults
    THEN BOOLEAN ELSE {TRUE}

FaultyRateCheck(ip) == NoCallRunning /\ RateCheck(ip, StoreMay)

FaultyRateCount(ip) == RateCount(ip, StoreMay)

NextRateFaulty == \E ip \in Ips : FaultyRateCheck(ip) \/ FaultyRateCount(ip)

\* one call after the other on a store that may be missing or may raise
SpecRateFaulty == InitRateFaulty /\ [][NextRateFaulty]_vars

\* C15: a call made without a client, or in which the get or the pipeline
\* raises, returns allow, whatever the counter; every call returns a result
\* to intake, and a store error never rejects.
C15_FailOpen ==
    /\ \A i \in 1..Len(limiter.log) :
        /\ limiter.log[i].allow \in BOOLEAN
        /\ limiter.log[i].store # "ok" => limiter.log[i].allow
        /\ ~redis.client => limiter.log[i].store = "no_client"
    /\ \A ip \in Ips : redis.rate[ip].count <= RateLimit

\* the counter is at 10, a call was rejected, and the next call, whose get
\* raised, was allowed
C15_Witness ==
    \E i \in 2..Len(limiter.log) :
        /\ redis.rate["ip1"].count = RateLimit
        /\ ~limiter.log[i - 1].allow
        /\ limiter.log[i].store = "raised" /\ limiter.log[i].allow

\* C16: the counter is the number of requests counted in a rolling hour: a
\* call is rejected only if at least 10 calls of that IP were allowed during
\* the 3600 seconds before it.
C16_RollingWindow ==
    \A i \in 1..Len(limiter.log) :
        ~limiter.log[i].allow =>
            Cardinality(AllowedSince(i, limiter.log[i].at - WindowTicks)) >= RateLimit

\* ------------------------------------------------ domain validation: claims

\* the urls tried: scheme or none, www. or none, a host, a port or none, and
\* nothing, a slash or a path behind it
UrlsTried ==
    {sch \o w \o h \o prt \o tl :
        sch \in {<<>>, <<"http://">>, <<"https://">>},
        w \in {<<>>, <<"www.">>},
        h \in {<<"acme", ".", "com">>, <<"ACME", ".", "com">>,
               <<"sub", ".", "acme", ".", "com">>, <<"other", ".", "com">>},
        prt \in {<<>>, <<":8080">>},
        tl \in {<<>>, <<"/">>, <<"/", "about">>}}

EmailDomainsTried ==
    {<<"acme", ".", "com">>, <<"ACME", ".", "com">>, <<"sub", ".", "acme", ".", "com">>,
     <<"www.", "acme", ".", "com">>, <<"other", ".", "com">>, <<"gmail", ".", "com">>,
     <<"mail", ".", "com">>}

\* a request has arrived whose email and company_url are any of those tried
InitDomain ==
    /\ now = 0
    /\ submissions = <<>>
    /\ profiles = <<>>
    /\ redis = Healthy
    /\ pc = [j \in JobIds |-> "idle"]
    /\ emails = [j \in JobIds |-> <<>>]
    /\ limiter = LimiterInit
    /\ feedback = <<>>
    /\ response = NoResponse
    /\ \E e \in EmailDomainsTried, u \in UrlsTried :
        loc = [j \in JobIds |->
                IF j = 1 THEN [LocInit EXCEPT !.submission = [email |-> e, company_url |-> u]]
                ELSE LocInit]

\* submit_intake handles that request, redis and the repository answering
IntakeGiven ==
    /\ redis.rate["ip1"] = NoKey
    /\ submit_intake("ip1", loc[1].submission, TRUE, TRUE)

SpecDomain == InitDomain /\ [][IntakeGiven]_vars

\* the host of a url as the validator's contract describes it: scheme
\* defaulted, what follows the host dropped, lower-cased, a leading www.
\* removed
UrlHost(url) ==
    LET n == Netloc(normalize_url(url))
        h == LowerAll(SelectSeq(n, LAMBDA t : t \notin Ports))
    IN  IF h # <<>> /\ h[1] = "www." THEN Tail(h) ELSE h

\* (is_valid, needs_manual_review) as the contract gives it
ContractVerdict(email_domain, url) ==
    LET e == LowerAll(email_domain)
        h == UrlHost(url)
    IN  IF e \in generic_providers THEN <<TRUE, TRUE>>
        ELSE IF e = h \/ EndsWith(e, <<".">> \o h) \/ EndsWith(h, <<".">> \o e)
             THEN <<TRUE, FALSE>>
        ELSE <<FALSE, FALSE>>

IntakeDone == redis.rate["ip1"] # NoKey

\* C17: validate_email_domain gives (true, true) for a generic provider,
\* (true, false) when the email domain equals the url's host or one is a
\* subdomain of the other, (false, false) otherwise; intake acts on it.
C17_DomainVerdict ==
    LET r == loc[1].submission
        v == ContractVerdict(r.email, r.company_url)
    IN  /\ validate_email_domain(r.email, r.company_url) = v
        /\ IntakeDone =>
            /\ ~v[1] => submissions = <<>>
            /\ (v[1] /\ v[2]) => Len(submissions) = 1 /\ StatusOf(1) = "manual_review"
            /\ (v[1] /\ ~v[2]) => Len(submissions) = 1 /\ StatusOf(1) = "queued"

\* --------------------------------------------------------- intake: claims

\* the rows whose email domain validation answers needs_manual_review
ForReview(j) ==
    /\ j <= Len(submissions)
    /\ validate_email_domain(submissions[j].email, submissions[j].company_url) = <<TRUE, TRUE>>

CompleteRow(j) == j <= Len(submissions) /\ StatusOf(j) = "complete"

\* C18: a submission whose validation answers (valid, review) is in
\* manual_review and stays there: no pipeline runs for it, no provider is
\* called for it, no profile and no email exist for it.
C18_ReviewNeverDispatched ==
    \A j \in JobIds :
        ForReview(j) =>
            /\ StatusOf(j) = "manual_review"
            /\ submissions[j].completed_at = <<>>
            /\ pc[j] = "idle"
            /\ loc[j] = LocInit
            /\ emails[j] = <<>>
            /\ get_profile_by_submission_id(profiles, j) = {}

\* a submission waits for review while another one ran to completion
C18_Witness ==
    \E j, k \in JobIds : ForReview(j) /\ CompleteRow(k) /\ now = MaxTime

\* a service whose rate counter of the client is anywhere up to the limit
InitIntake ==
    /\ now = 0
    /\ submissions = <<>>
    /\ profiles = <<>>
    /\ \E c \in BOOLEAN, n \in 0..RateLimit :
        redis = [client |-> c, cache |-> EmptyDict,
                 rate |-> [ip \in Ips |->
                            IF n = 0 THEN NoKey ELSE [count |-> n, ttl |-> WindowTicks]]]
    /\ pc = [j \in JobIds |-> "idle"]
    /\ loc = [j \in JobIds |-> LocInit]
    /\ emails = [j \in JobIds |-> <<>>]
    /\ limiter = LimiterInit
    /\ feedback = <<>>
    /\ response = NoResponse

IntakeAny == \E ip \in Ips, req \in Requests, store_ok \in BOOLEAN, db_ok \in BOOLEAN :
                submit_intake(ip, req, store_ok, db_ok)

SpecIntake == InitIntake /\ [][IntakeAny]_vars

Dispatched(j) == pc[j] = "idle" /\ pc'[j] = "start"

\* C19: an intake answered 200 adds exactly one row, queued with its pipeline
\* dispatched or manual_review with none; an intake answered 429, 400 or 500
\* adds no row and dispatches nothing.
C19_IntakeOutcomes ==
    [][\A ip \in Ips, req \in Requests, store_ok \in BOOLEAN, db_ok \in BOOLEAN :
        submit_intake(ip, req, store_ok, db_ok) =>
            LET n == Len(submissions)
                code == intake_response(ip, req, store_ok, db_ok)
            IN  IF code = 200
                THEN /\ Len(submissions') = n + 1
                     /\ SubSeq(submissions', 1, n) = submissions
                     /\ submissions'[n + 1].status \in {"queued", "manual_review"}
                     /\ submissions'[n + 1].status = "queued" <=> Dispatched(n + 1)
                     /\ \A j \in JobIds \ {n + 1} : pc'[j] = pc[j]
                ELSE /\ code \in {429, 400, 500}
                     /\ submissions' = submissions
                     /\ pc' = pc
                     /\ loc' = loc]_vars

\* one intake was rate limited, the others of the two rows went through, one
\* queued and one for review
C19_Witness ==
    /\ redis.client
    /\ redis.rate["ip1"].count = RateLimit
    /\ Len(submissions) = 2
    /\ StatusOf(1) = "queued" /\ pc[1] = "start"
    /\ StatusOf(2) = "manual_review" /\ pc[2] = "idle"

\* ----------------------------------------------------- completed_at: claim

\* C20: completed_at of a submission is set exactly when its status is
\* complete, failed or insufficient_data, and is null while it is queued,
\* processing or manual_review.
C20_CompletedAtIffTerminal ==
    \A j \in 1..Len(submissions) :
        (submissions[j].completed_at # <<>>) <=> (StatusOf(j) \in Terminal)

\* one submission has ended, with completed_at written at a later instant
\* than its creation, while the other is being processed
C20_Witness ==
    \E j, k \in 1..Len(submissions) :
        /\ StatusOf(j) \in Terminal
        /\ submissions[j].completed_at = <<MaxTime>>
        /\ submissions[j].created_at < MaxTime
        /\ StatusOf(k) = "processing"
        /\ submissions[k].completed_at = <<>>

\* ------------------------------------------------ the validator: claims

\* one pass of generate_profile whose response o parsed
ParsedPass(j, o) ==
    /\ o.kind = "ok"
    /\ GenStep(j, {o})
    /\ loc'[j].error # "Anthropic API key not configured"

\* C21: whenever the synthesis response parses, generate_profile returns it
\* without a retry, with the issues of validate_profile attached at most, and
\* process_submission goes on to persist it; it never takes the failed branch.
C21_ValidationNeverBlocks ==
    [][\A j \in JobIds, o \in ApiOutcomes :
        ParsedPass(j, o) =>
            /\ pc'[j] = "store_current"
            /\ loc'[j].error = None
            /\ loc'[j].profile # <<>>
            /\ \A k \in DOMAIN o.response : loc'[j].profile[1][k] = o.response[k]
            /\ DOMAIN loc'[j].profile[1] \subseteq DOMAIN o.response \cup {"_validation_issues"}]_vars


\* the issues generate_profile attached to the profile it returned
IssuesOf(profile) ==
    IF "_validation_issues" \in DOMAIN profile THEN profile["_validation_issues"] ELSE <<>>

\* the technology names the profile claims
ClaimedTechs(profile) ==
    LET snap == GetDict(profile, "operational_snapshot")
        techs == IF "detected_technologies" \in DOMAIN snap
                 THEN snap["detected_technologies"] ELSE <<>>
    IN  {techs[i] : i \in 1..Len(techs)}

\* the names the technology detector actually detected (none when it failed)
ActualTechs(worker_data) ==
    LET tech_data == GetEntry(worker_data, "tech_detector")
        detected == IF "detected" \in DOMAIN tech_data THEN tech_data["detected"] ELSE <<>>
    IN  {detected[i].name : i \in 1..Len(detected)}

TechIssueCount(profile, t) ==
    Cardinality({i \in 1..Len(IssuesOf(profile)) :
                    IssuesOf(profile)[i] = [issue |-> "technology", tech |-> t]})

\* C22: for every detector outcome, a failed detector and one that detected
\* nothing included, the returned profile carries exactly one issue for each
\* claimed technology the detector did not detect, and none for the others.
C22_UndetectedTechFlagged ==
    [][\A j \in JobIds, o \in ApiOutcomes :
        ParsedPass(j, o) =>
            \A t \in ClaimedTechs(o.response) :
                TechIssueCount(loc'[j].profile[1], t) =
                    IF t \in ActualTechs(loc[j].worker_data) THEN 0 ELSE 1]_vars

\* the lower-cased public_reputation claims a rating and does not say that
\* the data is unavailable
ClaimsRating(profile) ==
    LET mp == GetDict(profile, "market_position")
        reputation == IF "public_reputation" \in DOMAIN mp THEN mp["public_reputation"] ELSE {}
    IN  /\ "stars" \in reputation \/ "rating" \in reputation
        /\ "no data" \notin reputation /\ "unavailable" \notin reputation

\* the reputation provider returned a usable rating
UsableRating(worker_data) ==
    LET g == GetEntry(worker_data, "google_business")
    IN  TruthyBool(g, "success") /\ TruthyNum(g, "rating")

ReviewIssueCount(profile) ==
    Cardinality({i \in 1..Len(IssuesOf(profile)) : IssuesOf(profile)[i] = [issue |-> "review data"]})

\* C23: a profile whose public_reputation claims a rating is flagged whenever
\* the reputation provider returned no usable rating, having failed or having
\* succeeded without one, unless the text says the data is unavailable.
C23_UnbackedRatingFlagged ==
    [][\A j \in JobIds, o \in ApiOutcomes :
        (ParsedPass(j, o) /\ ClaimsRating(o.response)
            /\ ~UsableRating(loc[j].worker_data)) =>
                ReviewIssueCount(loc'[j].profile[1]) >= 1]_vars


\* ------------------------------------------------ the outermost handler: claim

\* C24: an error that reached the except clause of process_submission ends
\* with the status failed and one error notification attempted, whose own
\* failure is swallowed; no exception leaves process_submission.
C24_HandlerCatchesAll ==
    [][\A j \in 1..Len(submissions) :
        /\ pc'[j] # "crashed"
        /\ (pc[j] = "handler" /\ pc'[j] # "handler") =>
            /\ pc'[j] = "handler_email"
            /\ submissions'[j].status = "failed"
        /\ (pc[j] = "handler_email" /\ pc'[j] # "handler_email") =>
            /\ pc'[j] = "done"
            /\ submissions'[j].status = "failed"
            /\ Len(emails'[j]) = Len(emails[j]) + 1
            /\ ErrorMail(emails'[j][Len(emails'[j])])]_vars


\* ------------------------------------------------------- profiles: claim

\* C25: every step leaves the rows of the profiles table as they were and adds
\* rows at most; each submission has at most one row and every row names an
\* existing submission.
C25_OneImmutableProfile ==
    [][/\ Len(profiles') >= Len(profiles)
       /\ SubSeq(profiles', 1, Len(profiles)) = profiles
       /\ \A j \in JobIds : Cardinality(get_profile_by_submission_id(profiles', j)) <= 1
       /\ \A i \in 1..Len(profiles') : profiles'[i].submission_id \in 1..Len(submissions')]_vars

\* both submissions have their profile, the second one written after the first
C25_Witness ==
    /\ Len(profiles) = 2
    /\ profiles[1].submission_id # profiles[2].submission_id
    /\ \A j \in JobIds : j <= Len(submissions) /\ StatusOf(j) = "complete"


\* ---------------------------------------------------- the url cache: claims

\* the urls whose cache entry the step writes
Stored ==
    {u \in DOMAIN redis'.cache : u \notin DOMAIN redis.cache \/ redis'.cache[u] # redis.cache[u]}

\* C26: a cache entry is written only by the run of the job it names, after
\* that job's status became complete and its profile was persisted; the cache
\* changes otherwise by expiry only, so no run that ended failed or
\* insufficient_data stores anything.
C26_StoreAfterComplete ==
    [][/\ \A u \in Stored :
            LET j == redis'.cache[u]
            IN  /\ pc[j] = "cache_store" /\ pc'[j] = "done"
                /\ u = submissions[j].company_url
                /\ StatusOf(j) = "complete" /\ submissions'[j].status = "complete"
                /\ ~NoProfileOf(profiles, j)
       /\ redis'.cache # redis.cache => Stored # {} \/ redis'.cache = EmptyDict]_vars

\* an entry is in the cache and the run that wrote it has returned
C26_Witness ==
    \E u \in DOMAIN redis.cache :
        /\ pc[redis.cache[u]] = "done"
        /\ StatusOf(redis.cache[u]) = "complete"
        /\ \E k \in 1..Len(submissions) : StatusOf(k) \in {"failed", "insufficient_data"}


\* submission j becomes complete in the step
Completes(j) == StatusOf(j) # "complete" /\ submissions'[j].status = "complete"

\* C27: an unexpired cache entry of a url names the submission of that url
\* that completed last: when a submission becomes complete, through the full
\* run or through the cache hit, an entry that exists for its url names it.
C27_EntryNamesLatest ==
    [][\A j \in 1..Len(submissions) :
        Completes(j) =>
            LET u == submissions[j].company_url
            IN  u \in DOMAIN redis'.cache => redis'.cache[u] = j]_vars


\* ------------------------------------------- profile retrieval and feedback

\* Number of 24-hour periods the retrieval specification lets pass.
MaxDays == 8

\* Number of feedback rows the retrieval specification lets in.
MaxFeedback == 1

\* timedelta(days=7) of get_profile, in 24-hour periods
TokenDays == 7

\* A token of the path: the auth_token of row id (a uuid; the row need not
\* exist), or a text that is not a uuid.
Tokens == {[kind |-> "uuid", id |-> j] : j \in JobIds} \cup {[kind |-> "text"]}

\* SELECT * FROM submissions WHERE auth_token = %s: the column is of type
\* UUID, so the comparison with a text that is no uuid raises; otherwise
\* fetchone, <<>> for None and <<id>> for the row
get_submission_by_token(subs, token) ==
    IF token.kind # "uuid" THEN Raise("invalid input syntax for type uuid")
    ELSE IF token.id \in DOMAIN subs THEN Return(<<token.id>>)
    ELSE Return(<<>>)

\* get_profile: the answers it may give (one per row fetchone may return)
get_profile(token) ==
    LET s == get_submission_by_token(submissions, token)
    IN  IF s.raised THEN {[code |-> 500]}
        ELSE IF s.value = <<>> THEN {[code |-> 404, detail |-> "Profile not found"]}
        ELSE LET id == s.value[1]
                 submission == submissions[id]
                 rows == get_profile_by_submission_id(profiles, id)
             IN  IF now - submission.created_at > TokenDays
                 THEN {[code |-> 410, detail |-> "This profile link has expired"]}
                 ELSE IF submission.status # "complete"
                 THEN {[code |-> 202, detail |-> submission.status]}
                 ELSE IF rows = {}
                 THEN {[code |-> 404, detail |-> "Profile data not found"]}
                 ELSE {[code |-> 200, profile |-> profiles[r].profile_json] : r \in rows}

GetProfile ==
    /\ \E token \in Tokens : response' \in get_profile(token)
    /\ UNCHANGED <<now, submissions, profiles, redis, pc, loc, emails, limiter, feedback>>

\* INSERT INTO feedback
create_feedback(rows, profile_id, rating) ==
    Append(rows, [profile_id |-> profile_id, rating |-> rating])

\* submit_feedback: the answers it may give, each with the feedback table
\* it leaves
submit_feedback(token, rating) ==
    LET s == get_submission_by_token(submissions, token)
        same(r) == {[response |-> r, feedback |-> feedback]}
    IN  IF s.raised THEN same([code |-> 500])
        ELSE IF s.value = <<>> THEN same([code |-> 404, detail |-> "Profile not found"])
        ELSE LET rows == get_profile_by_submission_id(profiles, s.value[1])
             IN  IF rows = {} THEN same([code |-> 404, detail |-> "Profile not found"])
                 ELSE IF rating < 1 \/ rating > 5
                 THEN same([code |-> 400, detail |-> "Rating must be between 1 and 5"])
                 ELSE {[response |-> [code |-> 200, detail |-> "Thank you for your feedback"],
                        feedback |-> create_feedback(feedback, r, rating)] : r \in rows}

\* the ratings of the requests tried
RatingsTried == {0, 1, 5, 6}

SubmitFeedback ==
    /\ Len(feedback) < MaxFeedback
    /\ \E token \in Tokens, rating \in RatingsTried :
        \E a \in submit_feedback(token, rating) :
            /\ response' = a.response
            /\ feedback' = a.feedback
    /\ UNCHANGED <<now, submissions, profiles, redis, pc, loc, emails, limiter>>

\* a day passes
Day ==
    /\ now < MaxDays
    /\ now' = now + 1
    /\ redis' = [redis EXCEPT !.rate = [ip \in Ips |-> NoKey], !.cache = EmptyDict]
    /\ UNCHANGED <<submissions, profiles, pc, loc, emails, limiter, feedback, response>>

\* the states one submission may have been left in by intake and its run: a
\* Profile row exists from create_profile on, so a complete submission has
\* one, and a processing or failed one may
InitApi ==
    /\ now = 0
    /\ redis = Healthy
    /\ pc = [j \in JobIds |-> "idle"]
    /\ loc = [j \in JobIds |-> LocInit]
    /\ emails = [j \in JobIds |-> <<>>]
    /\ limiter = LimiterInit
    /\ feedback = <<>>
    /\ response = NoResponse
    /\ \E status \in Terminal \cup {"queued", "processing", "manual_review"},
          has_profile \in BOOLEAN :
        /\ has_profile => status \in {"processing", "complete", "failed"}
        /\ status = "complete" => has_profile
        /\ submissions = <<[company_url |-> <<"https://", "acme", ".", "com">>,
                            email |-> <<"acme", ".", "com">>, status |-> status,
                            created_at |-> 0,
                            completed_at |-> IF status \in Terminal THEN <<0>> ELSE <<>>]>>
        /\ profiles = IF has_profile
                      THEN create_profile(<<>>, 1,
                              [market_position |-> [public_reputation |-> {}]],
                              <<"Website Content">>, "Medium")
                      ELSE <<>>

NextApi == GetProfile \/ SubmitFeedback \/ Day

SpecApi == InitApi /\ [][NextApi]_vars


\* ---------------------------------- profile retrieval and feedback: claims

\* the token identifies a submission
Known(token) == token.kind = "uuid" /\ token.id \in 1..Len(submissions)

\* the status code the retrieval contract gives, in its order of precedence
RetrievalCode(token) ==
    IF ~Known(token) THEN 404
    ELSE IF now - submissions[token.id].created_at > 7 THEN 410
    ELSE IF StatusOf(token.id) # "complete" THEN 202
    ELSE IF NoProfileOf(profiles, token.id) THEN 404
    ELSE 200

\* C28: get_profile answers 404 for an unknown token, else 410 for a
\* submission created more than 7 days ago, else 202 while the status is not
\* complete, else 404 without a Profile row, else the Profile payload.
C28_RetrievalPrecedence ==
    /\ \A token \in Tokens : \A a \in get_profile(token) :
            /\ a.code = RetrievalCode(token)
            /\ a.code = 200 =>
                \E r \in 1..Len(profiles) :
                    /\ profiles[r].submission_id = token.id
                    /\ a.profile = profiles[r].profile_json
    /\ response.code \in {0, 200, 202, 400, 404, 410}

\* C29: submit_feedback adds a Feedback row exactly when the token identifies
\* a submission that has a Profile and the rating is in 1..5; it answers 404
\* for an unknown token or a missing profile and 400 for a rating outside
\* 1..5, the table unchanged in both cases.
C29_FeedbackIff ==
    \A token \in Tokens, rating \in RatingsTried : \A a \in submit_feedback(token, rating) :
        LET with_profile == Known(token) /\ ~NoProfileOf(profiles, token.id)
            in_range == rating \in 1..5
        IN  /\ (a.feedback # feedback) <=> (with_profile /\ in_range)
            /\ (with_profile /\ in_range) =>
                /\ a.response.code = 200
                /\ Len(a.feedback) = Len(feedback) + 1
                /\ a.feedback[Len(a.feedback)].rating = rating
                /\ profiles[a.feedback[Len(a.feedback)].profile_id].submission_id = token.id
            /\ ~with_profile => a.response.code = 404
            /\ (with_profile /\ ~in_range) => a.response.code = 400


\* ------------------------------------------------- provider results: claim

\* the entry carries an error message
HasError(entry) == "error" \in DOMAIN entry /\ entry["error"] # None

\* C30: in the aggregated dataset an entry carries an error exactly when its
\* success flag is false.
C30_ErrorIffFailed ==
    \A j \in JobIds :
        Scored(j) =>
            \A p \in DOMAIN loc[j].worker_data :
                HasError(loc[j].worker_data[p]) <=> (loc[j].worker_data[p].success = FALSE)


\* ------------------------------------------------- the backoff sleep: claim

Sleeping(j) == pc[j] = "gen_sleep"

Running(k) == pc[k] \notin {"idle", "done", "crashed"}

\* intake has not used up the submissions and requests it is given
IntakeInBounds ==
    Len(submissions) < NumJobs /\ \E ip \in Ips : redis.rate[ip].count < MaxRequests

\* C31: a pass of generate_profile that sleeps suspends its own pipeline only
\* and touches no other run; while a pipeline sleeps, intake (with its rate
\* limit check) and every other running pipeline can take a step.
C31_SleepBlocksOnlyItself ==
    /\ [][\A j \in JobIds :
            Len(loc'[j].gen.sleeps) > Len(loc[j].gen.sleeps) =>
                /\ Sleeping(j)'
                /\ \A k \in JobIds \ {j} : pc'[k] = pc[k] /\ loc'[k] = loc[k]]_vars
    /\ [](\A j \in JobIds :
            Sleeping(j) =>
                /\ IntakeInBounds => ENABLED Intake
                /\ \A k \in JobIds \ {j} : Running(k) => ENABLED Pipeline(k))

\* a pipeline sleeps, the intake of a second submission is still to come, or
\* the second pipeline is at work
C31_Witness ==
    \E j \in JobIds, k \in JobIds :
        /\ j # k
        /\ Sleeping(j) /\ loc[j].gen.sleeps = <<1, 4>>
        /\ pc[k] = "complete_update"


\* ------------------------------------------- intake order, the counter: claims

\* C32: the domain check precedes the rate limit: an intake answered 400 for
\* a domain mismatch leaves the counter of the submitter's IP as it was.
C32_MismatchNotCounted ==
    [][\A ip \in Ips, req \in Requests, store_ok \in BOOLEAN, db_ok \in BOOLEAN :
        (submit_intake(ip, req, store_ok, db_ok)
            /\ ~validate_email_domain(req.email, req.company_url)[1])
                => redis'.rate = redis.rate]_vars

\* the call of check_rate_limit that returns in the step, if one does
Returns(allow) ==
    /\ Len(limiter'.log) = Len(limiter.log) + 1
    /\ limiter'.log[Len(limiter'.log)].allow = allow

\* C33: a call that rejects leaves the counter and its expiry as they were; the
\* counter grows and its expiry is set anew only when a call allows, by one
\* and to the full hour.
C33_RejectedLeavesCounter ==
    [][\A ip \in Ips :
        /\ Returns(FALSE) => redis'.rate = redis.rate
        /\ (redis'.rate[ip].count > redis.rate[ip].count
                \/ redis'.rate[ip].ttl > redis.rate[ip].ttl) =>
            /\ Returns(TRUE)
            /\ redis'.rate[ip].count = redis.rate[ip].count + 1
            /\ redis'.rate[ip].ttl = WindowTicks]_vars

\* a call was rejected half an hour after the tenth was counted, and the key
\* still has the half hour left that it had
C33_Witness ==
    /\ Len(limiter.log) > RateLimit
    /\ ~limiter.log[Len(limiter.log)].allow
    /\ limiter.log[Len(limiter.log)].at = 1
    /\ redis.rate["ip1"] = [count |-> RateLimit, ttl |-> 1]


\* ------------------------------------------------ the end of the fan-out: claim

\* the providers of job j whose call has not ended
StillRunning(j) == {p \in ProviderNames : loc[j].worker_env[p] = NoEnv}

\* C34: while a provider of the run is still running the fan-out has not
\* returned: nothing is handed to the scorer, the scorer has not run and the
\* status is still processing.
C34_ScoredAfterAllProviders ==
    \A j \in JobIds :
        /\ pc[j] \in {"organize", "insufficient", "generate"} => StillRunning(j) = {}
        /\ (pc[j] = "gathering" /\ StillRunning(j) # {}) =>
            /\ loc[j].worker_results = <<>>
            /\ loc[j].worker_data = EmptyDict
            /\ loc[j].available_sources = <<>>
            /\ StatusOf(j) = "processing"

\* gather has just returned: the slowest provider, which timed out, is in
\* the results with the four others
C34_Witness ==
    \E j \in JobIds :
        /\ pc[j] = "organize"
        /\ StillRunning(j) = {}
        /\ loc[j].worker_env["site_scraper"].kind = "timeout"
        /\ Len(loc[j].worker_results) = 5


\* ------------------------------------------------- skipping the fan-out: claim

\* submission c has a Profile row
HasProfile(c) == \E r \in 1..Len(profiles) : profiles[r].submission_id = c

\* C35: the run leaves the lookup for the cache path only with a complete
\* submission of its normalized url created within the preceding 24 hours,
\* and skips the fan-out only when that submission has a Profile row; a
\* lookup that finds none, or a hit without a Profile row, leads to the
\* fan-out with the status still processing, and the fan-out calls all five
\* providers.
C35_SkipOnlyOnFreshComplete ==
    [][\A j \in 1..Len(submissions) :
        /\ (pc[j] = "cache_lookup" /\ pc'[j] = "cache_profile") =>
            /\ loc'[j].cached \in PriorComplete(j)
            /\ submissions[loc'[j].cached].company_url = url_of(j)
        /\ (pc[j] = "cache_profile" /\ pc'[j] = "cache_current") =>
            /\ HasProfile(loc[j].cached)
            /\ submissions[loc[j].cached].status = "complete"
        /\ (pc[j] = "cache_lookup" /\ PriorComplete(j) = {} /\ pc'[j] \notin {pc[j], "handler"}) =>
            pc'[j] = "fanout"
        /\ (pc[j] = "cache_profile" /\ ~HasProfile(loc[j].cached)
                /\ pc'[j] \notin {pc[j], "handler"}) =>
            pc'[j] = "fanout"
        /\ (pc[j] # "fanout" /\ pc'[j] = "fanout") =>
            /\ pc[j] \in {"cache_lookup", "cache_profile"}
            /\ submissions'[j].status = "processing"
            /\ NothingInvoked(loc'[j])
        /\ (pc[j] = "fanout" /\ pc'[j] # pc[j]) =>
            \A p \in ProviderNames : loc'[j].worker_env[p] # NoEnv
        /\ (pc[j] \in {"start", "cache_lookup"} /\ pc'[j] # pc[j]) =>
            pc'[j] \notin CachePath \ {"cache_profile"}
      ]_vars

\* a submission whose url was completed more than 24 hours ago has run the
\* five providers
C35_Witness ==
    \E j \in 1..Len(submissions), k \in 1..Len(submissions) :
        /\ k # j
        /\ submissions[k].company_url = submissions[j].company_url
        /\ submissions[k].status = "complete"
        /\ submissions[k].created_at <= now - 1
        /\ HasProfile(k)
        /\ PriorComplete(j) = {}
        /\ pc[j] = "organize"
        /\ \A p \in ProviderNames : loc[j].worker_env[p] # NoEnv


\* ---------------------------------------------------- what is retried: claim

\* the attempt of job j ends with outcome o (the key is configured)
AttemptEnds(j, o) ==
    /\ GenStep(j, {o})
    /\ loc'[j].error # "Anthropic API key not configured"

\* the attempt was a hard failure: generate_profile returned an error
\* without sleeping
HardFailure(j) ==
    /\ loc'[j].gen.sleeps = loc[j].gen.sleeps
    /\ pc'[j] = "failed_update"
    /\ loc'[j].profile = <<>>
    /\ loc'[j].error # None

\* C36 as stated: an attempt that ends with an error which is none of the
\* rate-limit, upstream-API and parse errors is a hard failure.
C36_OnlyTransientRetried ==
    [][\A j \in JobIds : \A o \in ApiOutcomes :
        (o.kind \notin {"ok", "rate_limit", "api_error", "parse_error"} /\ AttemptEnds(j, o))
            => HardFailure(j)]_vars

\* C36 amended: an attempt that ends with an error of any kind is followed
\* by its sleep and a further attempt when it is the first or the second,
\* and is a hard failure only when it is the third.
C36_EveryErrorRetried ==
    [][\A j \in JobIds : \A o \in ApiOutcomes :
        (o.kind # "ok" /\ AttemptEnds(j, o)) =>
            IF loc[j].gen.attempt < max_retries - 1
            THEN /\ loc'[j].gen.sleeps = Append(loc[j].gen.sleeps, delays[loc[j].gen.attempt + 1])
                 /\ pc'[j] = "gen_sleep"
                 /\ loc'[j].error = loc[j].error
            ELSE HardFailure(j)]_vars

\* generate_profile gave up on an error of the generic except clause after
\* three attempts and the sleeps of 1 s and 4 s
C36_Witness ==
    \E j \in JobIds :
        /\ pc[j] = "failed_update"
        /\ loc[j].error = "Error generating profile: e"
        /\ loc[j].gen.attempts = max_retries
        /\ loc[j].gen.sleeps = <<1, 4>>


\* ------------------------------------------- the profile_ready notification: claim

\* a notification of the given kind is sent for job j in this step
Sends(j, kind) ==
    /\ Len(emails'[j]) = Len(emails[j]) + 1
    /\ emails'[j][Len(emails'[j])].kind = kind

\* C37: when profile_ready is sent for a submission, on the cache path or
\* after the synthesis, the submission is complete and has its Profile row,
\* so that retrieval with its token answers neither 202 nor 404 at that
\* moment.
C37_ReadyAfterPersisted ==
    [][\A j \in JobIds :
        Sends(j, "profile_ready") =>
            /\ pc[j] \in {"cache_email", "complete_email"}
            /\ submissions[j].status = "complete"
            /\ submissions[j].completed_at # <<>>
            /\ HasProfile(j)
            /\ \A a \in get_profile([kind |-> "uuid", id |-> j]) : a.code \notin {202, 404}
      ]_vars

\* both paths have sent profile_ready: one submission after its synthesis,
\* the other from the cache
C37_Witness ==
    \E j \in JobIds, k \in JobIds :
        /\ j # k
        /\ pc[j] = "cache_store" /\ pc[k] = "done"
        /\ emails[j] # <<>> /\ emails[j][Len(emails[j])].kind = "profile_ready"
        /\ emails[k] # <<>> /\ emails[k][Len(emails[k])].kind = "profile_ready"
        /\ ClonedProfile(profiles, k) /\ HasProfile(j)


\* ------------------------------------------------ status and Profile row: claim

\* C38: a complete submission has a Profile row, and a submission whose
\* status is failed or insufficient_data has none.
C38_ProfileIffComplete ==
    \A j \in 1..Len(submissions) :
        /\ submissions[j].status = "complete" => HasProfile(j)
        /\ submissions[j].status \in {"failed", "insufficient_data"} => ~HasProfile(j)


\* ------------------------------------------- one notification per run: claim

\* the kind of notification that goes with a terminal status
KindOf(status) ==
    CASE status = "complete" -> "profile_ready"
      [] status = "insufficient_data" -> "insufficient_data"
      [] OTHER -> "error"

\* the run of job j is over
RunOver(j) == pc[j] \in {"done", "crashed"}

\* C39: a run that is over has attempted exactly one notification, of the
\* kind of the submission's final status, and a step that attempts a
\* notification leaves every status as it is.
C39_OneMatchingNotification ==
    /\ [][\A j \in JobIds :
            emails'[j] # emails[j] => submissions' = submissions]_vars
    /\ [](\A j \in JobIds :
            RunOver(j) =>
                /\ Len(emails[j]) = 1
                /\ StatusOf(j) \in {"complete", "insufficient_data", "failed"}
                /\ emails[j][1].kind = KindOf(StatusOf(j)))


\* ------------------------------------------------ concurrent pipelines: claim

\* the job whose pipeline takes this step
Steps(j) == pc'[j] # pc[j]

\* the step writes nothing but the status and completed_at of jobs that take
\* it, and adds Profile rows for them only, leaving the older rows alone
OwnRowsOnly ==
    /\ \A k \in 1..Len(submissions) :
        submissions'[k] # submissions[k] =>
            /\ Steps(k)
            /\ submissions'[k] = [submissions[k] EXCEPT
                                    !.status = submissions'[k].status,
                                    !.completed_at = submissions'[k].completed_at]
    /\ Len(profiles') >= Len(profiles)
    /\ \A r \in 1..Len(profiles) : profiles'[r] = profiles[r]
    /\ \A r \in (Len(profiles) + 1)..Len(profiles') : Steps(profiles'[r].submission_id)

\* C40: under every interleaving of the pipelines a run changes the status
\* and completed_at of its own submission only and creates a Profile for it
\* only, and every run that was started ends with its submission complete,
\* failed or insufficient_data.
C40_RunsAreIsolated ==
    /\ [][OwnRowsOnly]_vars
    /\ \A j \in JobIds :
        (pc[j] = "start") ~> (pc[j] = "done" /\ StatusOf(j) \in Terminal)

====
